---- MODULE Spec2Model ----
(***************************************************************************)
(* O-RAN fronthaul analysis: capacity estimation (capacity.py), demand     *)
(* aggregation (capacity.py) and cluster relabeling (topology.py).         *)
(*                                                                         *)
(* Units of the capacity part.  Demand is an integer number of 0.01 Gbps   *)
(* (so the traffic threshold 0.01 Gbps is 1).  A capacity is an integer    *)
(* number of 1/CapUnit of a demand unit, CapUnit = 100 * 2^MaxIter: the    *)
(* bisection midpoints and the linearly interpolated percentiles are then  *)
(* exact integers.  Time is counted in symbols: a slot is SYMBOLS_PER_SLOT *)
(* symbols and the buffer holds BUFFER_SYMBOLS symbols of link rate.       *)
(***************************************************************************)
EXTENDS Integers, Sequences, FiniteSets, TLC

VARIABLES
    pc,           \* position in estimate_all_capacities for the link
    cellDemand,   \* per_cell_demand_gbps: cell -> slot series
    demand,       \* demand_gbps: the link's slot series
    cellTraffic,  \* per_cell_traffic: cell -> boolean slot series
    trafficMask,  \* traffic_mask: boolean slot series, <<>> for None
    maxLossPct,   \* max_loss_pct
    lo, hi, iter, \* the bisection of capacity_with_buffer
    capNoBuf,     \* cap_no_buf[link]
    capWithBuf,   \* cap_with_buf[link]
    tpc,            \* position in infer_topology
    labels,         \* labels[i]: cluster label of cell i
    anchors,        \* TOPOLOGY_ANCHORS in iteration order: <<cell, link>>
    anchorIdx,      \* anchors processed so far
    labelQueue,     \* labels of label_to_cells still to be visited
    linkAssignment, \* link_assignment: cluster label -> link id
    usedLinks,      \* used_links
    remainingLinks, \* remaining_links
    topology,       \* topology: link id -> list of cells
    apc,            \* position in aggregate_link_demand_slot_level
    aggTopology,    \* its topology argument: link id -> list of cells
    throughput,     \* loaded throughput: cell -> records sorted by timestamp
    linkQueue,      \* links of the topology still to be visited
    results,        \* results: link id -> DemandSeries
    corr,           \* corr: the cell-to-cell correlation matrix
    clusters,       \* linkage: the clusters not yet merged
    merges,         \* Z: the merges of the linkage, in order
    confidence,     \* confidence: link id -> 0..100
    outliers,       \* outliers: link id -> [cell, maxCorr] of the flagged links
    cpc,            \* position in build_correlation_matrix
    pktStats,       \* pkt_stats: cell -> slot records sorted by timestamp
    bucketed,       \* bucketed: cell -> loss fraction per bucket
    tBase,          \* t_base
    nBuckets,       \* n_buckets
    pairQueue,      \* cell pairs (i < j) still to be correlated
    rpc,            \* position in root_cause_attribution
    rcaDemand,      \* its demand argument: the DemandSeries of the link
    rcaCap,         \* cap_with_buf[link_id]
    maxEvents,      \* max_events_per_link
    congQueue,      \* cong_slots[:max_events_per_link] still to be visited
    linkEvents,     \* link_events
    events,          \* events: link id -> list of events
    lpc,            \* position in load_throughput
    rawBits,        \* df["bits_kbit"] as read, in timestamp order
    bitsKbit,       \* df["bits_kbit"] as returned
    state,          \* _state: the cache of the API
    baseline,       \* _state as load_initial_state left it
    response,       \* the body of the last response
    lastSim,        \* demand and capacities of the last simulation, <<>> for none
    mpc,            \* position in a what-if recomputation
    inDemand,       \* demand: the dict passed to apply_multipliers
    multipliers,    \* multipliers: [str, int], the values under the string and integer keys
    newDemand,      \* the dict apply_multipliers returned
    newCaps         \* cap_no_buf and cap_with_buf of the new demand

capVars == <<pc, cellDemand, demand, cellTraffic, trafficMask, maxLossPct, lo, hi, iter,
             capNoBuf, capWithBuf>>

topoVars == <<tpc, labels, anchors, anchorIdx, labelQueue, linkAssignment,
              usedLinks, remainingLinks, topology>>

aggVars == <<apc, aggTopology, throughput, linkQueue, results>>

clusterVars == <<corr, clusters, merges, confidence, outliers>>

corrVars == <<cpc, pktStats, bucketed, tBase, nBuckets, pairQueue>>

rcaVars == <<rpc, rcaDemand, rcaCap, maxEvents, congQueue, linkEvents, events>>

loadVars == <<lpc, rawBits, bitsKbit>>

apiVars == <<state, baseline, response, lastSim, mpc, inDemand, multipliers, newDemand, newCaps>>

vars == <<capVars, topoVars, aggVars, clusterVars, corrVars, rcaVars, loadVars, apiVars>>

---------------------------------------------------------------------------
(* Bounds *)
MaxLen == 3          \* slots of an exhaustively enumerated series
MaxIter == 5         \* bisection iterations (range(50) in the source)
MaxBurstBlocks == 3  \* a base-plus-one-peak series has up to 8 * MaxBurstBlocks slots
NumLinkCells == 2    \* cells sharing the link
NumTopoCells == 4    \* cells of the network (NUM_CELLS is 24)
MaxRecords == 2      \* throughput records of a cell
MantBits == 4        \* significand bits of a float (53 in binary64)
CapacityWindow == 56 \* CAPACITY_TIME_WINDOW_SEC (60 s), in half symbols
FracBits == 12       \* the smallest positive float is 2^-FracBits Gbps
NumStatCells == 4    \* cells with packet statistics (NUM_CELLS is 24)
MaxStatRecs == 2     \* slot records of an exhaustively enumerated cell
BurstStarts == 3     \* first buckets at which a loss burst may start
BurstWidth == 2      \* buckets a loss burst lasts, at most
ExtraBuckets == 2    \* buckets of a long series beyond the ten required
ApiSlots == 2        \* slots of a link's series in the cache of the API
MaxSamples == 4      \* samples of an exhaustively enumerated throughput stream
BurstyLen == 61      \* samples of a stream whose 99th percentile lies below half its peak
SparseLen == 101     \* samples of a stream whose 99th percentile is its second largest

(* Program constants *)
SYMBOLS_PER_SLOT == 14
BUFFER_SYMBOLS == 4
MAX_PACKET_LOSS_PCT == 1
TrafficThreshold == 1     \* 0.01 Gbps in demand units
NUM_SHARED_LINKS == 3
SLOT_DURATION_US == 500
SymbolDuration == 2       \* SYMBOL_DURATION_US, a timestamp counting half symbols
TOPOLOGY_ANCHORS == <<(<<1, 2>>), (<<2, 3>>)>>   \* {1: 2, 2: 3}
BUCKET_SEC == 2           \* 0.2 s, a packet-statistics timestamp counting tenths of a second
MAX_SHIFT_SEC == 15       \* 1.5 s
MinBuckets == 10          \* max_correlation_with_shift: if L < 10

LinkCells == 1..NumLinkCells
CellDemandVals == {0, 1, 500}        \* 0, 0.01 Gbps, 5 Gbps
BurstBaseVals == {2, 500}            \* 0.02 Gbps, 5 Gbps
LossPcts == {MAX_PACKET_LOSS_PCT, 50}
BurstLens == {8 * k : k \in 1..MaxBurstBlocks}

---------------------------------------------------------------------------
(* Arithmetic helpers *)
Max2(a, b) == IF a >= b THEN a ELSE b
Min2(a, b) == IF a <= b THEN a ELSE b

RECURSIVE Pow2(_)
Pow2(n) == IF n = 0 THEN 1 ELSE 2 * Pow2(n - 1)

CapUnit == 100 * Pow2(MaxIter)

RECURSIVE SeqMax(_)
SeqMax(s) == IF Len(s) = 1 THEN s[1] ELSE Max2(s[1], SeqMax(Tail(s)))

\* number of TRUE entries of a boolean series (np.sum of a mask)
RECURSIVE CountTrue(_)
CountTrue(m) ==
    IF Len(m) = 0 THEN 0 ELSE (IF m[1] THEN 1 ELSE 0) + CountTrue(Tail(m))

\* arr[mask]: the entries of arr where mask is TRUE, in order
RECURSIVE SelectByMask(_, _)
SelectByMask(arr, m) ==
    IF Len(arr) = 0 THEN <<>>
    ELSE (IF m[1] THEN <<arr[1]>> ELSE <<>>) \o SelectByMask(Tail(arr), Tail(m))

\* percentages are kept as fractions <<numerator, denominator>>
PctLeq(a, b) == a[1] * b[2] <= b[1] * a[2]
PctMax(a, b) == IF PctLeq(b, a) THEN a ELSE b

---------------------------------------------------------------------------
(* capacity_without_buffer *)

\* np.percentile(vals, pct), linear interpolation, times 100
PercentileX100(vals, pct) ==
    LET s == SortSeq(vals, LAMBDA a, b : a < b)
        n == Len(s)
        pos == pct * (n - 1)        \* virtual index times 100
        k == pos \div 100
        rem == pos % 100
    IN  IF rem = 0 THEN 100 * s[k + 1]
        ELSE 100 * s[k + 1] + rem * (s[k + 2] - s[k + 1])

RECURSIVE CellCaps(_, _, _, _)
CellCaps(dem, traffic, cells, pct) ==
    IF cells = {} THEN {}
    ELSE LET c == CHOOSE x \in cells : TRUE
             vals == SelectByMask(dem, traffic[c])
         IN  (IF Len(vals) > 0 THEN {PercentileX100(vals, pct)} ELSE {})
             \cup CellCaps(dem, traffic, cells \ {c}, pct)

SetMax(S) == CHOOSE x \in S : \A y \in S : y <= x
SetMin(S) == CHOOSE x \in S : \A y \in S : x <= y

\* without a baseline no capacity is needed
NoBaselineZero(dem) == 0

\* float(np.max(slot_demand_gbps)), in capacity units
NoBaseline(dem) == CapUnit * SeqMax(dem)

\* result in capacity units; the mask <<>> stands for traffic_mask = None
CapacityWithoutBuffer(dem, mask, traffic, maxLoss) ==
    IF Len(dem) = 0 THEN 0
    ELSE LET pct == 100 - maxLoss
             scale == CapUnit \div 100
         IN  IF DOMAIN traffic # {}
             THEN LET caps == CellCaps(dem, traffic, DOMAIN traffic, pct)
                  IN  IF caps # {} THEN scale * SetMax(caps)
                      ELSE NoBaseline(dem)
             ELSE LET vals == IF CountTrue(mask) > 0
                              THEN SelectByMask(dem, mask)
                              ELSE SelectByMask(dem, [i \in 1..Len(dem) |-> dem[i] > 0])
                  IN  IF Len(vals) = 0 THEN NoBaseline(dem)
                      ELSE scale * PercentileX100(vals, pct)

---------------------------------------------------------------------------
(* capacity_with_buffer *)

\* a buffer of BUFFER_SYMBOLS slots
BufferGbSlots(C) == BUFFER_SYMBOLS * SYMBOLS_PER_SLOT * C

\* a link without a buffer
BufferGbNone(C) == 0

\* buffer_gb = BUFFER_DURATION_SEC * C
BufferGb(C) == BUFFER_SYMBOLS * C

\* the operands of the subtraction exchanged
OverflowSwapped(d, C) == Max2(0, (C - d * CapUnit) * SYMBOLS_PER_SLOT)

\* overflow = max(0, (d - C) * slot_dur_sec)
Overflow(d, C) == Max2(0, (d * CapUnit - C) * SYMBOLS_PER_SLOT)

\* the backlog of a lossy slot is not cut back to the buffer size
RECURSIVE ReplayUnclamped(_, _, _, _)
ReplayUnclamped(dem, C, i, buffer) ==
    IF i > Len(dem) THEN <<>>
    ELSE LET d == dem[i] IN
         IF d <= 0
         THEN <<[loss |-> FALSE, backlog |-> buffer]>> \o ReplayUnclamped(dem, C, i + 1, buffer)
         ELSE LET filled == buffer + Max2(0, (d * CapUnit - C) * SYMBOLS_PER_SLOT)
                  lossy == filled > BUFFER_SYMBOLS * C
                  drain == IF C > 0 THEN Min2(filled, C * SYMBOLS_PER_SLOT) ELSE 0
                  left == Max2(0, filled - drain)
              IN  <<[loss |-> lossy, backlog |-> left]>> \o ReplayUnclamped(dem, C, i + 1, left)

\* the slot loop of sim_max_cell_loss from slot i on, entered with the
\* given backlog: per slot the loss flag and the backlog after the slot
RECURSIVE Replay(_, _, _, _)
Replay(dem, C, i, buffer) ==
    IF i > Len(dem) THEN <<>>
    ELSE LET d == dem[i] IN
         IF d <= 0
         THEN <<[loss |-> FALSE, backlog |-> buffer]>> \o Replay(dem, C, i + 1, buffer)
         ELSE LET filled == buffer + Overflow(d, C)
                  lossy == filled > BufferGb(C)
                  clamped == IF lossy THEN BufferGb(C) ELSE filled
                  drain == IF C > 0 THEN Min2(clamped, C * SYMBOLS_PER_SLOT) ELSE 0
                  left == Max2(0, clamped - drain)
              IN  <<[loss |-> lossy, backlog |-> left]>> \o Replay(dem, C, i + 1, left)

LossInSlot(dem, C) ==
    LET tr == Replay(dem, C, 1, 0) IN [i \in 1..Len(dem) |-> tr[i].loss]

\* 100 * loss_slots / traffic_slots of one cell
CellLossPct(mask, loss) ==
    <<100 * CountTrue([i \in 1..Len(mask) |-> mask[i] /\ loss[i]]), CountTrue(mask)>>

RECURSIVE MaxCellPct(_, _, _, _)
MaxCellPct(traffic, loss, cells, maxPct) ==
    IF cells = {} THEN maxPct
    ELSE LET c == CHOOSE x \in cells : TRUE
             next == IF CountTrue(traffic[c]) = 0 THEN maxPct
                     ELSE PctMax(maxPct, CellLossPct(traffic[c], loss))
         IN  MaxCellPct(traffic, loss, cells \ {c}, next)

SimMaxCellLoss(dem, traffic, C) ==
    LET loss == LossInSlot(dem, C) IN
    IF DOMAIN traffic # {}
    THEN MaxCellPct(traffic, loss, DOMAIN traffic, <<0, 1>>)
    ELSE LET ts == CountTrue([i \in 1..Len(dem) |-> dem[i] > 0])
         IN  IF ts = 0 THEN <<0, 1>> ELSE <<100 * CountTrue(loss), ts>>

\* sim_max_cell_loss(mid) <= max_loss_pct
Passes(dem, traffic, C, maxLoss) ==
    PctLeq(SimMaxCellLoss(dem, traffic, C), <<maxLoss, 1>>)

\* the search never starts from an empty interval
InitialHiFloor(dem) ==
    Max2((110 * SeqMax(dem) * CapUnit) \div 100, TrafficThreshold * CapUnit)

\* float(np.max(slot_demand_gbps)) * 1.1
InitialHi(dem) == (110 * SeqMax(dem) * CapUnit) \div 100

\* mid = lo + hi / 2
BisectMidPrecedence(dem, traffic, maxLoss, l, h) ==
    LET mid == l + h \div 2
    IN  IF Passes(dem, traffic, mid, maxLoss) THEN <<l, mid>> ELSE <<mid, h>>

\* the bounds moved the wrong way round
BisectSwapped(dem, traffic, maxLoss, l, h) ==
    LET mid == (l + h) \div 2
    IN  IF Passes(dem, traffic, mid, maxLoss) THEN <<mid, h>> ELSE <<l, mid>>

\* a passing midpoint does not tighten the upper bound
BisectKeepsHi(dem, traffic, maxLoss, l, h) ==
    LET mid == (l + h) \div 2
    IN  IF Passes(dem, traffic, mid, maxLoss) THEN <<l, h>> ELSE <<mid, h>>

\* one iteration of the bisection: the new <<lo, hi>>
Bisect(dem, traffic, maxLoss, l, h) ==
    LET mid == (l + h) \div 2
    IN  IF Passes(dem, traffic, mid, maxLoss) THEN <<l, mid>> ELSE <<mid, h>>

---------------------------------------------------------------------------
(* Inputs of the capacity estimation for one link *)

\* aggregate_link_demand_slot_level: per_cell_traffic[cid] = d > 0.01
TrafficOf(cd) == [c \in DOMAIN cd |-> [i \in 1..Len(cd[c]) |-> cd[c][i] > TrafficThreshold]]

RECURSIVE SumCells(_, _, _)
SumCells(cd, cells, i) ==
    IF cells = {} THEN 0
    ELSE LET c == CHOOSE x \in cells : TRUE IN cd[c][i] + SumCells(cd, cells \ {c}, i)

AggregateOf(cd, n) == [i \in 1..n |-> SumCells(cd, DOMAIN cd, i)]

\* every series of at most MaxLen slots for the cells 1 and 2; the other
\* cells of the link are silent
ShortInputs ==
    UNION {{[c \in LinkCells |-> IF c <= 2 THEN f[c] ELSE [i \in 1..n |-> 0]] :
               f \in [1..2 -> [1..n -> CellDemandVals]]} : n \in 1..MaxLen}

\* n - 1 slots at a base rate and one peak slot of 10 Gbps, carried by cell 1
BurstInputs ==
    {[c \in LinkCells |-> [i \in 1..n |->
        IF c # 1 THEN 0 ELSE IF i = n THEN 1000 ELSE b]] :
        n \in BurstLens, b \in BurstBaseVals}

EmptyMap == [c \in {} |-> <<>>]

\* the demand series of an item without per-cell entries
UnpartitionedSeries == UNION {[1..n -> CellDemandVals] : n \in 1..MaxLen}

\* traffic_mask of estimate_all_capacities
LinkTrafficMask(dem) ==
    LET m == [i \in 1..Len(dem) |-> dem[i] > TrafficThreshold]
    IN  IF CountTrue(m) > 0 THEN m ELSE [i \in 1..Len(dem) |-> TRUE]


\* load_throughput is not running
LoadIdle ==
    /\ lpc = "idle"
    /\ rawBits = <<>>
    /\ bitsKbit = <<>>

\* apply_multipliers is not running
MultIdle ==
    /\ mpc = "idle"
    /\ inDemand = <<>>
    /\ multipliers = <<>>
    /\ newDemand = <<>>
    /\ newCaps = <<>>

\* the API is not started
ApiIdle ==
    /\ state = <<>>
    /\ baseline = <<>>
    /\ response = <<>>
    /\ lastSim = <<>>
    /\ MultIdle

\* the capacity estimation is not running
CapIdle ==
    /\ pc = "idle"
    /\ cellDemand = EmptyMap
    /\ demand = <<>>
    /\ cellTraffic = EmptyMap
    /\ trafficMask = <<>>
    /\ maxLossPct = MAX_PACKET_LOSS_PCT
    /\ lo = 0 /\ hi = 0 /\ iter = 0
    /\ capNoBuf = -1 /\ capWithBuf = -1

\* the relabeling is not running
TopoIdle ==
    /\ tpc = "idle"
    /\ labels = <<>>
    /\ anchors = <<>>
    /\ anchorIdx = 0
    /\ labelQueue = <<>>
    /\ linkAssignment = EmptyMap
    /\ usedLinks = {}
    /\ remainingLinks = {}
    /\ topology = <<>>

\* the aggregation is not running
AggIdle ==
    /\ apc = "idle"
    /\ aggTopology = <<>>
    /\ throughput = <<>>
    /\ linkQueue = <<>>
    /\ results = EmptyMap

\* no correlation matrix is being clustered
ClusterIdle ==
    /\ corr = <<>>
    /\ clusters = {}
    /\ merges = <<>>
    /\ confidence = <<>>
    /\ outliers = <<>>

\* build_correlation_matrix is not running
CorrIdle ==
    /\ cpc = "idle"
    /\ pktStats = <<>>
    /\ bucketed = <<>>
    /\ tBase = 0
    /\ nBuckets = 0
    /\ pairQueue = <<>>

\* root_cause_attribution is not running
RcaIdle ==
    /\ rpc = "idle"
    /\ rcaDemand = <<>>
    /\ rcaCap = 0
    /\ maxEvents = 0
    /\ congQueue = <<>>
    /\ linkEvents = <<>>
    /\ events = <<>>

InitCap ==
    /\ LoadIdle
    /\ ApiIdle
    /\ TopoIdle
    /\ AggIdle
    /\ ClusterIdle
    /\ CorrIdle
    /\ RcaIdle
    /\ pc = "start"
    /\ \/ /\ \/ /\ cellDemand \in ShortInputs
                /\ maxLossPct \in LossPcts
             \/ /\ cellDemand \in BurstInputs
                /\ maxLossPct = MAX_PACKET_LOSS_PCT
             \/ /\ cellDemand = EmptyMap      \* a link without cells or slots
                /\ maxLossPct = MAX_PACKET_LOSS_PCT
          /\ demand = IF DOMAIN cellDemand = {} THEN <<>>
                      ELSE AggregateOf(cellDemand, Len(cellDemand[1]))
          /\ cellTraffic = TrafficOf(cellDemand)
          /\ trafficMask = LinkTrafficMask(demand)
       \/ /\ cellDemand = EmptyMap            \* an item without per-cell entries
          /\ cellTraffic = EmptyMap
          /\ maxLossPct = MAX_PACKET_LOSS_PCT
          /\ demand \in UnpartitionedSeries
          /\ trafficMask \in {<<>>, LinkTrafficMask(demand)}
    /\ lo = 0 /\ hi = 0 /\ iter = 0
    /\ capNoBuf = -1 /\ capWithBuf = -1

\* cap_no_buf[link_id] = capacity_without_buffer(...)
NoBuffer ==
    /\ pc = "start"
    /\ capNoBuf' = CapacityWithoutBuffer(demand, trafficMask, cellTraffic, maxLossPct)
    /\ pc' = "with_buffer"
    /\ UNCHANGED <<cellDemand, demand, cellTraffic, trafficMask, maxLossPct, lo, hi, iter, capWithBuf, topoVars, aggVars,
                   clusterVars, corrVars, rcaVars, loadVars, apiVars>>

\* capacity_with_buffer on an empty series returns 0.0
BufferEmpty ==
    /\ pc = "with_buffer"
    /\ Len(demand) = 0
    /\ capWithBuf' = 0
    /\ pc' = "done"
    /\ UNCHANGED <<cellDemand, demand, cellTraffic, trafficMask, maxLossPct, lo, hi, iter, capNoBuf, topoVars, aggVars,
                   clusterVars, corrVars, rcaVars, loadVars, apiVars>>

\* lo, hi = 0.0, max * 1.1
BufferStart ==
    /\ pc = "with_buffer"
    /\ Len(demand) > 0
    /\ lo' = 0
    /\ hi' = InitialHi(demand)
    /\ iter' = 0
    /\ pc' = "bisect"
    /\ UNCHANGED <<cellDemand, demand, cellTraffic, trafficMask, maxLossPct, capNoBuf, capWithBuf, topoVars, aggVars,
                   clusterVars, corrVars, rcaVars, loadVars, apiVars>>

\* one pass of the for loop
BisectStep ==
    /\ pc = "bisect"
    /\ iter < MaxIter
    /\ LET r == Bisect(demand, cellTraffic, maxLossPct, lo, hi)
       IN  lo' = r[1] /\ hi' = r[2]
    /\ iter' = iter + 1
    /\ UNCHANGED <<pc, cellDemand, demand, cellTraffic, trafficMask, maxLossPct, capNoBuf, capWithBuf, topoVars, aggVars,
                   clusterVars, corrVars, rcaVars, loadVars, apiVars>>

\* return hi
BufferReturn ==
    /\ pc = "bisect"
    /\ iter = MaxIter
    /\ capWithBuf' = hi
    /\ pc' = "done"
    /\ UNCHANGED <<cellDemand, demand, cellTraffic, trafficMask, maxLossPct, lo, hi, iter, capNoBuf, topoVars, aggVars,
                   clusterVars, corrVars, rcaVars, loadVars, apiVars>>

NextCap == NoBuffer \/ BufferEmpty \/ BufferStart \/ BisectStep \/ BufferReturn

SpecCap == InitCap /\ [][NextCap]_vars

---------------------------------------------------------------------------
(* Properties of the capacity estimation *)

HasTraffic(mask) == CountTrue(mask) > 0

\* 1.1 * max(demand) / 2^iterations
Resolution(dem) == IF Len(dem) = 0 THEN 0 ELSE InitialHi(dem) \div Pow2(MaxIter)

\* the capacities at which a slot of the series starts or stops being lossy
ThresholdCaps(dem) ==
    UNION {{(SYMBOLS_PER_SLOT * dem[i] * CapUnit) \div (SYMBOLS_PER_SLOT + BUFFER_SYMBOLS),
            (SYMBOLS_PER_SLOT * dem[i] * CapUnit) \div (SYMBOLS_PER_SLOT + BUFFER_SYMBOLS) + 1,
            dem[i] * CapUnit} : i \in 1..Len(dem)}

\* the thresholds of the series and the ends of the search interval
ProbeCaps(dem) ==
    IF Len(dem) = 0 THEN {0} ELSE ThresholdCaps(dem) \cup {0, InitialHi(dem)}

\* the grid of the bisection and the thresholds of the series
CandidateCaps(dem) ==
    IF Len(dem) = 0 THEN {0}
    ELSE {j * Resolution(dem) : j \in 0..Pow2(MaxIter)} \cup ThresholdCaps(dem)

\* C1: replaying the simulation at the returned capacity, every cell with
\* traffic has 100 * (lossy traffic slots) / (traffic slots) <= max_loss_pct.
C1_LossBoundAtReturned ==
    pc = "done" =>
        LET loss == LossInSlot(demand, capWithBuf) IN
        \A c \in DOMAIN cellTraffic :
            HasTraffic(cellTraffic[c]) =>
                PctLeq(CellLossPct(cellTraffic[c], loss), <<maxLossPct, 1>>)

C1_Witness ==
    /\ pc = "done"
    /\ lo > 0
    /\ \E c \in DOMAIN cellTraffic :
          /\ HasTraffic(cellTraffic[c])
          /\ CellLossPct(cellTraffic[c], LossInSlot(demand, capWithBuf))[1] > 0

\* C2: every candidate capacity below the returned value by more than the
\* search resolution has a worst-case per-cell loss above max_loss_pct.
C2_MinimumPassing ==
    pc = "done" =>
        \A c \in CandidateCaps(demand) :
            c + Resolution(demand) < capWithBuf =>
                ~PctLeq(SimMaxCellLoss(demand, cellTraffic, c), <<maxLossPct, 1>>)

C2_Witness ==
    /\ pc = "done"
    /\ \E c \in CandidateCaps(demand) : c > 0 /\ c + Resolution(demand) < capWithBuf

\* C3: the worst-case per-cell loss percentage of the replay is
\* non-increasing in the candidate capacity.
C3_LossMonotone ==
    pc = "done" =>
        LET probes == ProbeCaps(demand) \cup {lo, hi}
            table == {<<c, SimMaxCellLoss(demand, cellTraffic, c)>> : c \in probes}
        IN  \A a, b \in table : a[1] <= b[1] => PctLeq(b[2], a[2])

C3_Witness ==
    /\ pc = "done"
    /\ 0 < lo /\ lo < hi
    /\ SimMaxCellLoss(demand, cellTraffic, lo)[1] > 0
    /\ SimMaxCellLoss(demand, cellTraffic, hi)[1] > 0
    /\ ~PctLeq(SimMaxCellLoss(demand, cellTraffic, lo),
               SimMaxCellLoss(demand, cellTraffic, hi))

\* the capacities the replay is looked at: the thresholds of the series,
\* the ends of the search interval and the midpoint tried next
ReplayCaps == ProbeCaps(demand) \cup {lo, hi, (lo + hi) \div 2}

\* C25: at every candidate capacity C >= 0 the backlog after every slot
\* lies in [0, BUFFER_DURATION x C]; a slot is lossy exactly when its
\* demand is positive and the backlog plus max(0, demand - C) x slot
\* duration exceeds the buffer size, and then the backlog is cut back to
\* the buffer size before it drains.
C25_ReplayBacklog ==
    pc \in {"bisect", "done"} =>
        \A C \in ReplayCaps :
            LET tr == Replay(demand, C, 1, 0)
                size == BUFFER_SYMBOLS * C
            IN  \A i \in 1..Len(demand) :
                   LET before == IF i = 1 THEN 0 ELSE tr[i - 1].backlog
                       filled == before
                                 + Max2(0, (demand[i] * CapUnit - C) * SYMBOLS_PER_SLOT)
                       drain == IF C > 0 THEN Min2(size, C * SYMBOLS_PER_SLOT) ELSE 0
                   IN  /\ 0 <= tr[i].backlog
                       /\ tr[i].backlog <= size
                       /\ tr[i].loss <=> (demand[i] > 0 /\ filled > size)
                       /\ tr[i].loss => tr[i].backlog = Max2(0, size - drain)

\* a capacity above 0 with a slot that overflows the buffer and a slot
\* whose overflow the buffer holds
C25_Witness ==
    /\ pc = "bisect"
    /\ \E C \in ReplayCaps :
          /\ C > 0
          /\ \E i, j \in 1..Len(demand) :
                /\ Replay(demand, C, 1, 0)[i].loss
                /\ ~Replay(demand, C, 1, 0)[j].loss
                /\ demand[j] * CapUnit > C

\* C26: the bisection returns after exactly MaxIter iterations; all the
\* while 0 <= lo <= hi <= 1.1 x max(demand) and hi - lo has halved with
\* every iteration; the value returned is the last hi.
C26_Bisection ==
    /\ pc \in {"bisect", "done"} /\ Len(demand) > 0 =>
          /\ 0 <= lo /\ lo <= hi
          /\ 100 * hi <= 110 * SeqMax(demand) * CapUnit
          /\ iter \in 0..MaxIter
          /\ (hi - lo) * Pow2(iter) = (110 * SeqMax(demand) * CapUnit) \div 100
    /\ pc = "done" /\ Len(demand) > 0 =>
          /\ iter = MaxIter
          /\ capWithBuf = hi
          /\ 0 <= capWithBuf
          /\ 100 * capWithBuf <= 110 * SeqMax(demand) * CapUnit

\* a search that has moved both ends
C26_Witness ==
    /\ pc = "done"
    /\ iter = MaxIter
    /\ 0 < lo
    /\ 100 * hi < 110 * SeqMax(demand) * CapUnit

\* C27: at every candidate capacity C > 0 the backlog is 0 after every
\* slot, so a slot is lossy exactly when its own demand exceeds
\* C x (SYMBOLS_PER_SLOT + BUFFER_SYMBOLS) / SYMBOLS_PER_SLOT, whatever the
\* slots before it.
C27_NoCarryOver ==
    pc \in {"bisect", "done"} =>
        \A C \in ReplayCaps :
            C > 0 =>
                LET tr == Replay(demand, C, 1, 0)
                IN  \A i \in 1..Len(demand) :
                       /\ tr[i].backlog = 0
                       /\ tr[i].loss <=>
                              SYMBOLS_PER_SLOT * demand[i] * CapUnit
                                  > (SYMBOLS_PER_SLOT + BUFFER_SYMBOLS) * C

\* a lossy slot followed by a slot above the capacity that is not lossy
C27_Witness ==
    /\ pc = "done"
    /\ \E C \in ReplayCaps :
          /\ C > 0
          /\ \E i \in 1..(Len(demand) - 1) :
                /\ Replay(demand, C, 1, 0)[i].loss
                /\ ~Replay(demand, C, 1, 0)[i + 1].loss
                /\ demand[i + 1] * CapUnit > C

\* slots of the mask whose link demand exceeds the capacity
SlotsAbove(dem, mask, C) ==
    CountTrue([i \in 1..Len(dem) |-> mask[i] /\ dem[i] * CapUnit > C])

\* C4: at the unbuffered capacity, for every cell with traffic at most
\* max_loss_pct percent of its traffic slots have link demand above it.
C4_NoBufferLossBound ==
    pc # "start" =>
        \A c \in DOMAIN cellTraffic :
            HasTraffic(cellTraffic[c]) =>
                100 * SlotsAbove(demand, cellTraffic[c], capNoBuf)
                    <= maxLossPct * CountTrue(cellTraffic[c])

LinkHasTraffic(dem) == \E i \in 1..Len(dem) : dem[i] > 0

\* C5: for a link with traffic the pipeline's two estimates satisfy
\* capacity_with_buffer <= capacity_no_buffer.
C5_BufferNotAbove ==
    (pc = "done" /\ maxLossPct = MAX_PACKET_LOSS_PCT /\ LinkHasTraffic(demand))
        => capWithBuf <= capNoBuf

\* the same demand D > 0 in every slot, carried in every slot by some cell
ConstantDemand(dem, traffic) ==
    /\ Len(dem) > 0
    /\ dem[1] > 0
    /\ \A i \in 1..Len(dem) : dem[i] = dem[1]
    /\ \E c \in DOMAIN traffic : \A i \in 1..Len(dem) : traffic[c][i]

\* within 5 percent of b
Approx(a, b) == 100 * (a - b) <= 5 * b /\ 100 * (b - a) <= 5 * b

\* C6: for a constant demand D the buffered capacity is approximately D,
\* the same value as the unbuffered capacity.
C6_ConstantDemand ==
    (pc = "done" /\ ConstantDemand(demand, cellTraffic)) =>
        /\ Approx(capWithBuf, demand[1] * CapUnit)
        /\ Approx(capWithBuf, capNoBuf)

\* C14: for an empty slot demand series, or one that is zero in every
\* slot, both estimates return 0.
C14_NoTrafficZero ==
    (pc = "done" /\ \A i \in 1..Len(demand) : demand[i] = 0) =>
        capNoBuf = 0 /\ capWithBuf = 0

\* a series of zeros went through the percentile fallback and the bisection
C14_Witness ==
    /\ pc = "done"
    /\ Len(demand) > 1
    /\ \A i \in 1..Len(demand) : demand[i] = 0
    /\ iter = MaxIter
    /\ capNoBuf = 0 /\ capWithBuf = 0

\* no percentile baseline: per-cell masks without a traffic slot, or no
\* mask at all and no slot with positive demand
NoValidBaseline ==
    /\ Len(demand) > 0
    /\ \/ /\ DOMAIN cellTraffic # {}
          /\ \A c \in DOMAIN cellTraffic : ~HasTraffic(cellTraffic[c])
       \/ /\ DOMAIN cellTraffic = {}
          /\ trafficMask = <<>>
          /\ \A i \in 1..Len(demand) : demand[i] <= 0

\* C15: without a valid percentile baseline the unbuffered capacity is the
\* maximum of the slot demand series.
C15_FallbackIsMax ==
    (pc # "start" /\ NoValidBaseline) =>
        /\ \E i \in 1..Len(demand) : capNoBuf = demand[i] * CapUnit
        /\ \A i \in 1..Len(demand) : capNoBuf >= demand[i] * CapUnit

\* cells at the traffic threshold: a positive demand without traffic slot
C15_Witness ==
    /\ pc # "start"
    /\ NoValidBaseline
    /\ DOMAIN cellTraffic # {}
    /\ \E i, j \in 1..Len(demand) : demand[i] < demand[j]
    /\ capNoBuf > 0

\* successive slots alternate between 0 and 10 Gbps
Alternating(dem) ==
    /\ Len(dem) >= 2
    /\ \A i \in 1..Len(dem) : dem[i] \in {0, 1000}
    /\ \A i \in 1..(Len(dem) - 1) : dem[i] # dem[i + 1]

\* C7: for a demand alternating between 0 and 10 Gbps the buffered capacity
\* is strictly smaller than the unbuffered capacity.
C7_AlternatingStrict ==
    (pc = "done" /\ Alternating(demand)) => capWithBuf < capNoBuf

C7_Witness ==
    /\ pc = "done"
    /\ Alternating(demand)
    /\ capNoBuf = 1000 * CapUnit
    /\ capWithBuf < capNoBuf

---------------------------------------------------------------------------
(* infer_topology: relabeling of the clusters (topology.py) *)

TopoCells == 1..NumTopoCells
Links == 1..NUM_SHARED_LINKS

\* the anchor maps the relabeling is run with: the configured one and
\* every other map of the cells 1 and 2 to link ids, in dict order
AnchorMaps ==
    {<<>>}
    \cup {<<(<<c, l>>)>> : c \in {1, 2}, l \in Links}
    \cup {a \in {<<(<<c, l>>), (<<d, m>>)>> : c \in {1, 2}, d \in {1, 2}, l \in Links, m \in Links} :
             a[1][1] # a[2][1]}

\* keys of label_to_cells in insertion order: labels by first appearance
RECURSIVE FirstAppearance(_, _)
FirstAppearance(labs, i) ==
    IF i > Len(labs) THEN <<>>
    ELSE IF \E j \in 1..(i - 1) : labs[j] = labs[i]
         THEN FirstAppearance(labs, i + 1)
         ELSE <<labs[i]>> \o FirstAppearance(labs, i + 1)

\* the cells, in order, whose cluster is assigned the link
CellsOnLink(labs, assignment, link) ==
    SelectSeq([i \in 1..Len(labs) |-> i], LAMBDA c : assignment[labs[c]] = link)

\* every anchor cell is also appended to its required link
TopologyForcingAnchors(labs, assignment, anch) ==
    [l \in Links |-> CellsOnLink(labs, assignment, l)
        \o SelectSeq([k \in 1..Len(anch) |-> anch[k][1]],
                     LAMBDA c : \E k \in 1..Len(anch) :
                         /\ anch[k] = <<c, l>>
                         /\ assignment[labs[c]] # l)]

\* topology = {link_id: []}; topology[link_assignment[labels[i]]].append(cid)
TopologyOf(labs, assignment, anch) ==
    [l \in Links |-> CellsOnLink(labs, assignment, l)]

\* the anchor's cluster takes the required link whatever it had before
ClaimOverwriting(assignment, used, labs, anchor) ==
    [assignment |-> [x \in DOMAIN assignment \cup {labs[anchor[1]]} |->
                        IF x = labs[anchor[1]] THEN anchor[2] ELSE assignment[x]],
     used |-> used \cup {anchor[2]}]

\* one pass of the loop over TOPOLOGY_ANCHORS: the new link_assignment
\* and used_links
Claim(assignment, used, labs, anchor) ==
    LET cell == anchor[1]
        required == anchor[2]
    IN  IF cell \notin 1..Len(labs) \/ required \in used
        THEN [assignment |-> assignment, used |-> used]
        ELSE LET lab == labs[cell] IN
             IF lab \notin DOMAIN assignment
             THEN [assignment |-> [x \in DOMAIN assignment \cup {lab} |->
                                      IF x = lab THEN required ELSE assignment[x]],
                   used |-> used \cup {required}]
             ELSE [assignment |-> assignment, used |-> used]

\* after cluster_cells: label_to_cells is built, nothing is assigned
InitTopo ==
    /\ LoadIdle
    /\ ApiIdle
    /\ CapIdle
    /\ AggIdle
    /\ ClusterIdle
    /\ CorrIdle
    /\ RcaIdle
    /\ tpc = "anchors"
    /\ labels \in [TopoCells -> Links]
    /\ anchors \in AnchorMaps
    /\ anchorIdx = 0
    /\ labelQueue = FirstAppearance(labels, 1)
    /\ linkAssignment = EmptyMap
    /\ usedLinks = {}
    /\ remainingLinks = {}
    /\ topology = <<>>

\* for cell_id, required_link in TOPOLOGY_ANCHORS.items()
AnchorStep ==
    /\ tpc = "anchors"
    /\ anchorIdx < Len(anchors)
    /\ LET r == Claim(linkAssignment, usedLinks, labels, anchors[anchorIdx + 1])
       IN  linkAssignment' = r.assignment /\ usedLinks' = r.used
    /\ anchorIdx' = anchorIdx + 1
    /\ UNCHANGED <<tpc, labels, anchors, labelQueue, remainingLinks, topology, capVars, aggVars,
                   clusterVars, corrVars, rcaVars, loadVars, apiVars>>

\* remaining_links = set(range(1, NUM_SHARED_LINKS + 1))
AnchorsDoneAllLinks ==
    /\ tpc = "anchors"
    /\ anchorIdx = Len(anchors)
    /\ remainingLinks' = Links
    /\ tpc' = "remaining"
    /\ UNCHANGED <<labels, anchors, anchorIdx, labelQueue, linkAssignment, usedLinks,
                   topology, capVars, aggVars,
                   clusterVars, corrVars, rcaVars, loadVars, apiVars>>

\* remaining_links = set(range(1, NUM_SHARED_LINKS + 1)) - used_links
AnchorsDone ==
    /\ tpc = "anchors"
    /\ anchorIdx = Len(anchors)
    /\ remainingLinks' = Links \ usedLinks
    /\ tpc' = "remaining"
    /\ UNCHANGED <<labels, anchors, anchorIdx, labelQueue, linkAssignment, usedLinks,
                   topology, capVars, aggVars,
                   clusterVars, corrVars, rcaVars, loadVars, apiVars>>

\* for lab in label_to_cells: a label that an anchor assigned is passed over
SkipAssigned ==
    /\ tpc = "remaining"
    /\ labelQueue # <<>>
    /\ Head(labelQueue) \in DOMAIN linkAssignment
    /\ labelQueue' = Tail(labelQueue)
    /\ UNCHANGED <<tpc, labels, anchors, anchorIdx, linkAssignment, usedLinks,
                   remainingLinks, topology, capVars, aggVars,
                   clusterVars, corrVars, rcaVars, loadVars, apiVars>>

\* link_assignment[lab] = remaining_links.pop(): set.pop() removes an
\* arbitrary element and raises KeyError on an empty set
PopRemaining ==
    /\ tpc = "remaining"
    /\ labelQueue # <<>>
    /\ Head(labelQueue) \notin DOMAIN linkAssignment
    /\ IF remainingLinks = {}
       THEN /\ tpc' = "KeyError"
            /\ UNCHANGED <<labelQueue, linkAssignment, remainingLinks, loadVars, apiVars>>
       ELSE \E l \in remainingLinks :
            /\ linkAssignment' = [x \in DOMAIN linkAssignment \cup {Head(labelQueue)} |->
                                     IF x = Head(labelQueue) THEN l ELSE linkAssignment[x]]
            /\ remainingLinks' = remainingLinks \ {l}
            /\ labelQueue' = Tail(labelQueue)
            /\ tpc' = tpc
    /\ UNCHANGED <<labels, anchors, anchorIdx, usedLinks, topology, capVars, aggVars,
                   clusterVars, corrVars, rcaVars, loadVars, apiVars>>

\* the final loop over the cells, and the return
PlaceCells ==
    /\ tpc = "remaining"
    /\ labelQueue = <<>>
    /\ topology' = TopologyOf(labels, linkAssignment, anchors)
    /\ tpc' = "done"
    /\ UNCHANGED <<labels, anchors, anchorIdx, labelQueue, linkAssignment, usedLinks,
                   remainingLinks, capVars, aggVars,
                   clusterVars, corrVars, rcaVars, loadVars, apiVars>>

NextTopo == AnchorStep \/ AnchorsDone \/ SkipAssigned \/ PopRemaining \/ PlaceCells

SpecTopo == InitTopo /\ [][NextTopo]_vars

---------------------------------------------------------------------------
(* Properties of the relabeling *)

\* C28: every cluster label gets exactly one link id of
\* 1..NUM_SHARED_LINKS, no two labels get the same link id, and
\* remaining_links.pop() never meets an empty set.
C28_TotalInjective ==
    /\ tpc # "KeyError"
    /\ (/\ tpc = "remaining"
        /\ labelQueue # <<>>
        /\ Head(labelQueue) \notin DOMAIN linkAssignment) => remainingLinks # {}
    /\ \A x, y \in DOMAIN linkAssignment :
          /\ linkAssignment[x] \in 1..NUM_SHARED_LINKS
          /\ linkAssignment[x] = linkAssignment[y] => x = y
    /\ tpc = "done" =>
          DOMAIN linkAssignment = {labels[i] : i \in 1..Len(labels)}

\* three clusters, one of which took its link from an anchor and two from
\* remaining_links
C28_Witness ==
    /\ tpc = "done"
    /\ Cardinality(DOMAIN linkAssignment) = NUM_SHARED_LINKS
    /\ Cardinality(usedLinks) = 1
    /\ remainingLinks = {}

\* number of positions of the list that hold the cell
Occurrences(list, cell) == Cardinality({i \in 1..Len(list) : list[i] = cell})

Range(list) == {list[i] : i \in 1..Len(list)}

\* C9: every cell id is in exactly one link's cell list, once, and the
\* union of the link cell lists is the set of all cells.
C9_Partition ==
    tpc = "done" =>
        /\ \A c \in TopoCells :
              /\ Cardinality({l \in Links : c \in Range(topology[l])}) = 1
              /\ \A l \in Links : Occurrences(topology[l], c) <= 1
        /\ UNION {Range(topology[l]) : l \in Links} = TopoCells

C9_Witness ==
    /\ tpc = "done"
    /\ Cardinality({l \in Links : topology[l] # <<>>}) = NUM_SHARED_LINKS
    /\ labels[1] = labels[2]
    /\ anchors = TOPOLOGY_ANCHORS

\* the link of an earlier anchor is the link of anchor k
LinkClaimedBefore(anch, k) == \E j \in 1..(k - 1) : anch[j][2] = anch[k][2]

\* an earlier anchor cell lies in the cluster of the cell of anchor k
ClusterClaimedBefore(anch, labs, k) ==
    \E j \in 1..(k - 1) : labs[anch[j][1]] = labs[anch[k][1]]

---------------------------------------------------------------------------
(* aggregate_link_demand_slot_level (capacity.py)                          *)
(*                                                                         *)
(* A timestamp is an integer number of half symbols.  A throughput record  *)
(* is [ts, kbit].  Bit counts are small integers, which binary floating    *)
(* point adds exactly; a Gbps value is the quotient of a bit count by the  *)
(* slot duration and is rounded to MantBits significant bits.  A float is  *)
(* kept as an integer number of 2^-FracBits Gbps.                          *)

AggCells == {1, 2}
TimeVals == {0, 27, 57}
KbitVals == {10, 11}

\* round(a / b), halves to the even neighbour
RoundHalfEven(a, b) ==
    LET f == a \div b
        r == a % b
    IN  IF 2 * r < b THEN f
        ELSE IF 2 * r > b THEN f + 1
        ELSE IF f % 2 = 0 THEN f ELSE f + 1

\* number of binary digits of x
RECURSIVE BitLen(_)
BitLen(x) == IF x = 0 THEN 0 ELSE 1 + BitLen(x \div 2)

\* spacing of the floats around x (x in float units)
Ulp(x) == IF BitLen(x) <= MantBits THEN 1 ELSE Pow2(BitLen(x) - MantBits)

\* the float nearest to n / d
FloatDiv(n, d) ==
    LET scaled == n * Pow2(FracBits)
        step == Ulp(scaled \div d)
    IN  step * RoundHalfEven(scaled, d * step)

\* bits / (slot_dur_sec * 1e9)
ToGbps(bits) == FloatDiv(bits, SLOT_DURATION_US * 1000)

\* the literal 0.01
TrafficFloat == FloatDiv(1, 100)

RecordSeqs ==
    UNION {{r \in [1..n -> [ts : TimeVals, kbit : KbitVals]] :
               \A i \in 1..(n - 1) : r[i].ts <= r[i + 1].ts} : n \in 1..MaxRecords}

\* both cells on link 1, or one cell on each of the links 2 and 3
AggTopologies == {<<(<<1, 2>>), <<>>, <<>>>>, <<<<>>, (<<1>>), (<<2>>)>>}

RECURSIVE MinTs(_, _)
MinTs(tp, cells) ==
    IF Len(cells) = 1 THEN tp[cells[1]][1].ts
    ELSE Min2(tp[cells[1]][1].ts, MinTs(tp, Tail(cells)))

RECURSIVE MaxTs(_, _)
MaxTs(tp, cells) ==
    IF Len(cells) = 1 THEN tp[cells[1]][Len(tp[cells[1]])].ts
    ELSE Max2(tp[cells[1]][Len(tp[cells[1]])].ts, MaxTs(tp, Tail(cells)))

\* t0 and t1 of the link, t1 capped by the analysis window
LinkT0(tp, cells) == MinTs(tp, cells)
LinkT1(tp, cells) == Min2(MaxTs(tp, cells), LinkT0(tp, cells) + CapacityWindow)

\* n_symbols = int((t1 - t0) / symbol_dur) + 1
NSymbols(tp, cells) == (LinkT1(tp, cells) - LinkT0(tp, cells)) \div SymbolDuration + 1

\* idx = clip(round((ts - t0) / symbol_dur), 0, n_symbols - 1), counted from 1
SymbolIndex(ts, t0, n) ==
    Max2(0, Min2(RoundHalfEven(ts - t0, SymbolDuration), n - 1)) + 1

\* np.add.at(arr, idx, bits) for the records k.. of one cell inside [t0, t1]
RECURSIVE AddRecords(_, _, _, _, _)
AddRecords(arr, recs, k, t0, t1) ==
    IF k > Len(recs) THEN arr
    ELSE IF recs[k].ts >= t0 /\ recs[k].ts <= t1
         THEN AddRecords([arr EXCEPT ![SymbolIndex(recs[k].ts, t0, Len(arr))] =
                             @ + recs[k].kbit * 1000],
                         recs, k + 1, t0, t1)
         ELSE AddRecords(arr, recs, k + 1, t0, t1)

\* arr[idx] += bits: with a repeated index only the last record is kept
RECURSIVE AssignRecords(_, _, _, _, _)
AssignRecords(arr, recs, k, t0, t1) ==
    IF k > Len(recs) THEN arr
    ELSE IF recs[k].ts >= t0 /\ recs[k].ts <= t1
         THEN AssignRecords([arr EXCEPT ![SymbolIndex(recs[k].ts, t0, Len(arr))] =
                                recs[k].kbit * 1000],
                            recs, k + 1, t0, t1)
         ELSE AssignRecords(arr, recs, k + 1, t0, t1)

PerCellBitsAssigned(recs, t0, t1, n) ==
    AssignRecords([i \in 1..n |-> 0], recs, 1, t0, t1)

\* per_cell_bits[cid] after the loop over the cells
PerCellBits(recs, t0, t1, n) ==
    AddRecords([i \in 1..n |-> 0], recs, 1, t0, t1)

\* combined_bits after the loop over the cells k.. of the link
RECURSIVE CombinedBits(_, _, _, _, _, _)
CombinedBits(arr, tp, cells, k, t0, t1) ==
    IF k > Len(cells) THEN arr
    ELSE CombinedBits(AddRecords(arr, tp[cells[k]], 1, t0, t1), tp, cells, k + 1, t0, t1)

RECURSIVE SumRange(_, _, _)
SumRange(arr, from, to) ==
    IF from > to THEN 0 ELSE arr[from] + SumRange(arr, from + 1, to)

\* arr[: n_slots * SYMBOLS_PER_SLOT].reshape(n_slots, SYMBOLS_PER_SLOT).sum(axis=1)
SlotSums(arr, nSlots) ==
    [k \in 1..nSlots |->
        SumRange(arr, (k - 1) * SYMBOLS_PER_SLOT + 1, k * SYMBOLS_PER_SLOT)]

EmptySeries == [ts |-> <<>>, demand |-> <<>>, traffic |-> EmptyMap, cellDemand |-> EmptyMap]

\* the DemandSeries of a link with at least one full slot
DemandSeriesOf(tp, cells) ==
    LET t0 == LinkT0(tp, cells)
        t1 == LinkT1(tp, cells)
        n == NSymbols(tp, cells)
        nSlots == n \div SYMBOLS_PER_SLOT
        combined == CombinedBits([i \in 1..n |-> 0], tp, cells, 1, t0, t1)
        slotBits == SlotSums(combined, nSlots)
        cellSet == {cells[i] : i \in 1..Len(cells)}
        perCell == [c \in cellSet |->
                       LET cellBits == SlotSums(PerCellBits(tp[c], t0, t1, n), nSlots)
                       IN  [k \in 1..nSlots |-> ToGbps(cellBits[k])]]
    IN  [ts |-> [k \in 1..nSlots |->
                    t0 + (k - 1) * SYMBOLS_PER_SLOT * SymbolDuration
                       + (SYMBOLS_PER_SLOT * SymbolDuration) \div 2],
         demand |-> [k \in 1..nSlots |-> ToGbps(slotBits[k])],
         traffic |-> [c \in cellSet |-> [k \in 1..nSlots |-> perCell[c][k] > TrafficFloat]],
         cellDemand |-> perCell]

Put(map, key, val) == [x \in DOMAIN map \cup {key} |-> IF x = key THEN val ELSE map[x]]

InitAgg ==
    /\ LoadIdle
    /\ ApiIdle
    /\ CapIdle
    /\ TopoIdle
    /\ ClusterIdle
    /\ CorrIdle
    /\ RcaIdle
    /\ apc = "links"
    /\ aggTopology \in AggTopologies
    /\ throughput \in [AggCells -> RecordSeqs]
    /\ linkQueue = [i \in 1..NUM_SHARED_LINKS |-> i]
    /\ results = EmptyMap

\* a link without cells is passed over and gets no entry
AggNoCellsSkipped ==
    /\ apc = "links"
    /\ linkQueue # <<>>
    /\ aggTopology[Head(linkQueue)] = <<>>
    /\ linkQueue' = Tail(linkQueue)
    /\ UNCHANGED <<apc, aggTopology, throughput, results, capVars, topoVars,
                   clusterVars, corrVars, rcaVars, loadVars, apiVars>>

\* if not cell_ids: an empty series
AggNoCells ==
    /\ apc = "links"
    /\ linkQueue # <<>>
    /\ aggTopology[Head(linkQueue)] = <<>>
    /\ results' = Put(results, Head(linkQueue), EmptySeries)
    /\ linkQueue' = Tail(linkQueue)
    /\ UNCHANGED <<apc, aggTopology, throughput, capVars, topoVars,
                   clusterVars, corrVars, rcaVars, loadVars, apiVars>>

\* if n_symbols < SYMBOLS_PER_SLOT: an empty series
AggShortSpan ==
    /\ apc = "links"
    /\ linkQueue # <<>>
    /\ aggTopology[Head(linkQueue)] # <<>>
    /\ NSymbols(throughput, aggTopology[Head(linkQueue)]) < SYMBOLS_PER_SLOT
    /\ results' = Put(results, Head(linkQueue), EmptySeries)
    /\ linkQueue' = Tail(linkQueue)
    /\ UNCHANGED <<apc, aggTopology, throughput, capVars, topoVars,
                   clusterVars, corrVars, rcaVars, loadVars, apiVars>>

\* the rest of the loop body
AggLink ==
    /\ apc = "links"
    /\ linkQueue # <<>>
    /\ aggTopology[Head(linkQueue)] # <<>>
    /\ NSymbols(throughput, aggTopology[Head(linkQueue)]) >= SYMBOLS_PER_SLOT
    /\ results' = Put(results, Head(linkQueue),
                      DemandSeriesOf(throughput, aggTopology[Head(linkQueue)]))
    /\ linkQueue' = Tail(linkQueue)
    /\ UNCHANGED <<apc, aggTopology, throughput, capVars, topoVars,
                   clusterVars, corrVars, rcaVars, loadVars, apiVars>>

\* return results
AggReturn ==
    /\ apc = "links"
    /\ linkQueue = <<>>
    /\ apc' = "done"
    /\ UNCHANGED <<aggTopology, throughput, linkQueue, results, capVars, topoVars,
                   clusterVars, corrVars, rcaVars, loadVars, apiVars>>

NextAgg == AggNoCells \/ AggShortSpan \/ AggLink \/ AggReturn

SpecAgg == InitAgg /\ [][NextAgg]_vars

---------------------------------------------------------------------------
(* Properties of the aggregation *)

RECURSIVE SumOverCells(_, _, _)
SumOverCells(cd, cells, t) ==
    IF cells = {} THEN 0
    ELSE LET c == CHOOSE x \in cells : TRUE
         IN  cd[c][t] + SumOverCells(cd, cells \ {c}, t)

Abs(x) == IF x >= 0 THEN x ELSE 0 - x

\* the slots the link's series must have
ExpectedSlots(link) ==
    IF aggTopology[link] = <<>> THEN 0
    ELSE NSymbols(throughput, aggTopology[link]) \div SYMBOLS_PER_SLOT

\* all series of the link have the expected number of slots
SameSlotAxis(link) ==
    /\ Len(results[link].demand) = ExpectedSlots(link)
    /\ Len(results[link].ts) = ExpectedSlots(link)
    /\ \A c \in DOMAIN results[link].cellDemand :
          /\ Len(results[link].cellDemand[c]) = ExpectedSlots(link)
          /\ Len(results[link].traffic[c]) = ExpectedSlots(link)

\* C8 as stated: at every slot of every returned link the aggregate demand
\* equals the sum of the per-cell demands, and all series of the link have
\* n_symbols // SYMBOLS_PER_SLOT slots.
C8_ConservationExact ==
    \A link \in DOMAIN results :
        /\ SameSlotAxis(link)
        /\ \A t \in 1..Len(results[link].demand) :
              results[link].demand[t] =
                  SumOverCells(results[link].cellDemand, DOMAIN results[link].cellDemand, t)

\* C8 amended: the aggregate demand differs from the sum of the per-cell
\* demands by at most half a unit in the last place of the aggregate per
\* rounded quotient (one per cell and one for the aggregate), and all
\* series of the link have n_symbols // SYMBOLS_PER_SLOT slots.
C8_ConservationRounded ==
    \A link \in DOMAIN results :
        /\ SameSlotAxis(link)
        /\ \A t \in 1..Len(results[link].demand) :
              2 * Abs(results[link].demand[t]
                      - SumOverCells(results[link].cellDemand,
                                     DOMAIN results[link].cellDemand, t))
                 <= (Cardinality(DOMAIN results[link].cellDemand) + 1)
                        * Ulp(results[link].demand[t])

\* C18: the result has an entry for every link id of the topology, and the
\* entry of a link without cells, or with fewer than SYMBOLS_PER_SLOT
\* symbols between its first and last timestamp, is the empty series.
C18_EmptySeries ==
    apc = "done" =>
        /\ DOMAIN results = DOMAIN aggTopology
        /\ \A link \in DOMAIN aggTopology :
              (\/ aggTopology[link] = <<>>
               \/ NSymbols(throughput, aggTopology[link]) < SYMBOLS_PER_SLOT) =>
                  /\ results[link].ts = <<>>
                  /\ results[link].demand = <<>>
                  /\ DOMAIN results[link].traffic = {}
                  /\ DOMAIN results[link].cellDemand = {}

\* a link without cells, a link whose cell has a single record, and a link
\* with a full slot
C18_Witness ==
    /\ apc = "done"
    /\ \E a, b, c \in DOMAIN aggTopology :
          /\ aggTopology[a] = <<>>
          /\ aggTopology[b] # <<>>
          /\ MaxTs(throughput, aggTopology[b]) = MinTs(throughput, aggTopology[b])
          /\ results[a] = EmptySeries
          /\ results[b] = EmptySeries
          /\ Len(results[c].demand) > 0

C8_Witness ==
    /\ apc = "done"
    /\ \E link \in DOMAIN results :
          /\ Len(results[link].demand) = 2
          /\ Cardinality(DOMAIN results[link].cellDemand) = 2
          /\ \E t \in 1..2 :
                /\ results[link].cellDemand[1][t] > 0
                /\ results[link].cellDemand[2][t] > 0
                /\ results[link].demand[t] #
                       results[link].cellDemand[1][t] + results[link].cellDemand[2][t]

---------------------------------------------------------------------------
(* cluster_cells, infer_topology and compute_topology_confidence           *)
(* (topology.py)                                                           *)
(*                                                                         *)
(* A correlation is an integer number of hundredths; a distance between    *)
(* two clusters is the fraction <<sum of the pairwise distances, number of *)
(* pairs>>.  The network has NUM_SHARED_LINKS + 2 cells, the fewest for    *)
(* which the cut of the dendrogram has to pass over more than one merge.   *)

ClusterCells == 1..(NUM_SHARED_LINKS + 2)
CorrVals == {0, 75}

CellPairs == {q \in ClusterCells \X ClusterCells : q[1] < q[2]}

\* corr = np.eye(n); corr[i, j] = corr[j, i] = r
MatrixOf(upper) ==
    [q \in ClusterCells \X ClusterCells |->
        IF q[1] = q[2] THEN 100
        ELSE upper[<<Min2(q[1], q[2]), Max2(q[1], q[2])>>]]

CorrMatrices == {MatrixOf(u) : u \in [CellPairs -> CorrVals]}

\* dist = 1 - np.clip(corr, 0, 1); np.fill_diagonal(dist, 0)
Dist(c, a, b) == IF a = b THEN 0 ELSE 100 - Max2(0, Min2(c[<<a, b>>], 100))

RECURSIVE SumDist(_, _)
SumDist(c, pairs) ==
    IF pairs = {} THEN 0
    ELSE LET q == CHOOSE x \in pairs : TRUE
         IN  Dist(c, q[1], q[2]) + SumDist(c, pairs \ {q})

\* method="average": the mean distance between the cells of A and of B
AvgDist(c, A, B) == <<SumDist(c, A \X B), Cardinality(A) * Cardinality(B)>>

\* the partition after the first m merges
RECURSIVE FlatClusters(_, _, _)
FlatClusters(Z, m, cells) ==
    IF m = 0 THEN {{x} : x \in cells}
    ELSE (FlatClusters(Z, m - 1, cells) \ {Z[m].left, Z[m].right})
             \cup {Z[m].left \cup Z[m].right}

\* merges of height at most t
MergesUpTo(Z, t) == Cardinality({i \in 1..Len(Z) : PctLeq(Z[i].dist, t)})

\* criterion="maxclust": the smallest merge height whose cut leaves at
\* most n clusters
MaxclustThreshold(Z, n) ==
    LET ok == {i \in 1..Len(Z) : Len(Z) + 1 - MergesUpTo(Z, Z[i].dist) <= n}
    IN  Z[CHOOSE i \in ok : \A j \in ok : i <= j].dist

\* fcluster(Z, n, criterion="maxclust"): the label of every cell; the
\* flat clusters are numbered by their first cell
FCluster(Z, n, cells) ==
    LET flat == FlatClusters(Z, MergesUpTo(Z, MaxclustThreshold(Z, n)), cells)
    IN  [x \in 1..Cardinality(cells) |->
            Cardinality({SetMin(A) : A \in {B \in flat : SetMin(B) <= SetMin(
                CHOOSE C \in flat : x \in C)}})]

\* corr and cells as build_correlation_matrix returned them
InitInfer ==
    /\ LoadIdle
    /\ ApiIdle
    /\ CapIdle
    /\ AggIdle
    /\ CorrIdle
    /\ RcaIdle
    /\ tpc = "linkage"
    /\ corr \in CorrMatrices
    /\ clusters = {{x} : x \in ClusterCells}
    /\ merges = <<>>
    /\ confidence = <<>>
    /\ outliers = <<>>
    /\ labels = <<>>
    /\ anchors = TOPOLOGY_ANCHORS
    /\ anchorIdx = 0
    /\ labelQueue = <<>>
    /\ linkAssignment = EmptyMap
    /\ usedLinks = {}
    /\ remainingLinks = {}
    /\ topology = <<>>

\* linkage(condensed, method="average"): the two closest clusters are
\* merged; among equally close pairs any one may be taken
LinkageStep ==
    /\ tpc = "linkage"
    /\ Cardinality(clusters) > 1
    /\ LET pairs == {q \in clusters \X clusters : SetMin(q[1]) < SetMin(q[2])}
           d == [q \in pairs |-> AvgDist(corr, q[1], q[2])]
       IN  \E q \in pairs :
              /\ \A r \in pairs : PctLeq(d[q], d[r])
              /\ clusters' = (clusters \ {q[1], q[2]}) \cup {q[1] \cup q[2]}
              /\ merges' = Append(merges, [left |-> q[1], right |-> q[2], dist |-> d[q]])
    /\ UNCHANGED <<tpc, corr, confidence, outliers, labels, anchors, anchorIdx, labelQueue,
                   linkAssignment, usedLinks, remainingLinks, topology,
                   capVars, aggVars, corrVars, rcaVars, loadVars, apiVars>>

\* labels = fcluster(...).tolist(); cluster_cells returns, its locals are
\* gone, and label_to_cells is built
ClusterCellsReturn ==
    /\ tpc = "linkage"
    /\ Cardinality(clusters) = 1
    /\ labels' = FCluster(merges, NUM_SHARED_LINKS, ClusterCells)
    /\ labelQueue' = FirstAppearance(labels', 1)
    /\ clusters' = {}
    /\ merges' = <<>>
    /\ tpc' = "anchors"
    /\ UNCHANGED <<corr, confidence, outliers, anchors, anchorIdx,
                   linkAssignment, usedLinks, remainingLinks, topology,
                   capVars, aggVars, corrVars, rcaVars, loadVars, apiVars>>

\* round(100 * x, 0) for x = num / den hundredths
RoundPct(num, den) == RoundHalfEven(num, den)

RECURSIVE SumCorr(_, _)
SumCorr(c, pairs) ==
    IF pairs = {} THEN 0
    ELSE LET q == CHOOSE x \in pairs : TRUE
         IN  c[q] + SumCorr(c, pairs \ {q})

\* every link takes the confidence of a singleton link
LinkConfidenceMaxOnly(cellIds, c, cells) ==
    IF Len(cellIds) = 0 THEN 0
    ELSE LET others == {c[<<cellIds[1], j>>] : j \in cells \ {cellIds[1]}}
         IN  RoundPct(IF others # {} THEN SetMax(others) ELSE 0, 1)

\* the confidence of one link
LinkConfidence(cellIds, c, cells) ==
    IF Len(cellIds) < 2
    THEN IF Len(cellIds) = 1
         THEN LET others == {c[<<cellIds[1], j>>] : j \in cells \ {cellIds[1]}}
              IN  RoundPct(IF others # {} THEN SetMax(others) ELSE 0, 1)
         ELSE 0
    ELSE LET pairs == {q \in Range(cellIds) \X Range(cellIds) : q[1] < q[2]}
         IN  IF pairs # {} THEN RoundPct(SumCorr(c, pairs), Cardinality(pairs))
             ELSE 0

\* compute_topology_confidence(topology, corr, cells)
ComputeTopologyConfidence ==
    /\ tpc = "done"
    /\ corr # <<>>
    /\ confidence' = [l \in DOMAIN topology |->
                         LinkConfidence(topology[l], corr, ClusterCells)]
    /\ tpc' = "reported"
    /\ UNCHANGED <<corr, outliers, clusters, merges, labels, anchors, anchorIdx, labelQueue,
                   linkAssignment, usedLinks, remainingLinks, topology,
                   capVars, aggVars, corrVars, rcaVars, loadVars, apiVars>>

\* threshold: float = 0.2, in hundredths
threshold == 20

\* max(corr[i0, j] for j in range(len(cells)) if j != i0) if len(cells) > 1 else 0.0
MaxCorr(cid, c, cells) ==
    IF Cardinality(cells) > 1 THEN SetMax({c[<<cid, j>>] : j \in cells \ {cid}}) ELSE 0

\* the size of the link is not looked at
IsOutlierAnySize(cellIds, c, cells) ==
    /\ Len(cellIds) >= 1
    /\ MaxCorr(cellIds[1], c, cells) < threshold

\* if len(cell_ids) != 1: continue ... if max_corr < threshold
IsOutlier(cellIds, c, cells) ==
    /\ Len(cellIds) = 1
    /\ MaxCorr(cellIds[1], c, cells) < threshold

\* detect_topology_outliers(topology, corr, cells)
DetectTopologyOutliers ==
    /\ tpc = "reported"
    /\ outliers' = [l \in {k \in DOMAIN topology : IsOutlier(topology[k], corr, ClusterCells)} |->
                       [cell |-> topology[l][1],
                        maxCorr |-> MaxCorr(topology[l][1], corr, ClusterCells)]]
    /\ tpc' = "flagged"
    /\ UNCHANGED <<corr, confidence, clusters, merges, labels, anchors, anchorIdx,
                   labelQueue, linkAssignment, usedLinks, remainingLinks, topology,
                   capVars, aggVars, corrVars, rcaVars, loadVars, apiVars>>

NextInfer ==
    \/ LinkageStep
    \/ ClusterCellsReturn
    \/ NextTopo
    \/ ComputeTopologyConfidence
    \/ DetectTopologyOutliers

SpecInfer == InitInfer /\ [][NextInfer]_vars

---------------------------------------------------------------------------
(* Properties of the clustering *)

\* C11: cluster_cells yields exactly NUM_SHARED_LINKS distinct labels and
\* every link id of the returned topology has a non-empty cell list.
C11_ExactlyNumLinks ==
    /\ labels # <<>> => Cardinality(Range(labels)) = NUM_SHARED_LINKS
    /\ tpc \in {"done", "reported"} =>
          \A l \in Links : topology[l] # <<>>

C21_OutlierIff ==
    tpc = "flagged" =>
        /\ DOMAIN outliers \subseteq DOMAIN topology
        /\ \A l \in DOMAIN topology :
              LET s == topology[l]
              IN  /\ l \in DOMAIN outliers <=>
                        /\ Len(s) = 1
                        /\ \A j \in ClusterCells \ {s[1]} : corr[<<s[1], j>>] < threshold
                  /\ Len(s) >= 2 => l \notin DOMAIN outliers
                  /\ l \in DOMAIN outliers =>
                        /\ outliers[l].cell = s[1]
                        /\ \E j \in ClusterCells \ {s[1]} :
                              outliers[l].maxCorr = corr[<<s[1], j>>]
                        /\ \A j \in ClusterCells \ {s[1]} :
                              corr[<<s[1], j>>] <= outliers[l].maxCorr

\* a flagged link of one cell, a link of one correlated cell that is not
\* flagged, and a link of several uncorrelated cells that is not flagged
C21_Witness ==
    /\ tpc = "flagged"
    /\ \E a, b \in DOMAIN topology :
          /\ a \in DOMAIN outliers
          /\ Len(topology[b]) = 1
          /\ b \notin DOMAIN outliers
    /\ \E l \in DOMAIN topology :
          /\ Len(topology[l]) >= 2
          /\ \E x, y \in Range(topology[l]) : x # y /\ corr[<<x, y>>] < threshold

RECURSIVE PairSumFrom(_, _, _, _)
PairSumFrom(c, s, i, j) ==
    IF i >= Len(s) THEN 0
    ELSE IF j > Len(s) THEN PairSumFrom(c, s, i + 1, i + 2)
    ELSE c[<<s[i], s[j]>>] + PairSumFrom(c, s, i, j + 1)

\* C20: every link has a confidence between 0 and 100: the rounded mean,
\* in percent, of the correlations of all pairs of its cells when it has
\* two or more cells, the largest correlation of its cell to any other
\* cell when it has one, and 0 when it has none.
C20_Confidence ==
    tpc = "reported" =>
        /\ DOMAIN confidence = DOMAIN topology
        /\ \A l \in DOMAIN topology :
              LET s == topology[l]
                  n == Len(s)
                  p == (n * (n - 1)) \div 2
              IN  /\ confidence[l] \in 0..100
                  /\ n = 0 => confidence[l] = 0
                  /\ n = 1 =>
                        /\ \E j \in ClusterCells \ {s[1]} :
                              confidence[l] = corr[<<s[1], j>>]
                        /\ \A j \in ClusterCells \ {s[1]} :
                              corr[<<s[1], j>>] <= confidence[l]
                  /\ n >= 2 =>
                        LET d == confidence[l] * p - PairSumFrom(corr, s, 1, 2)
                        IN  /\ 2 * d <= p
                            /\ -2 * d <= p

\* a link of three or more cells whose mean is none of the correlations,
\* next to a link of one cell that is correlated to a cell of another link
C20_Witness ==
    /\ tpc = "reported"
    /\ \E l \in DOMAIN topology :
          /\ Len(topology[l]) >= 3
          /\ confidence[l] \notin CorrVals
    /\ \E l \in DOMAIN topology :
          /\ Len(topology[l]) = 1
          /\ confidence[l] > 0

---------------------------------------------------------------------------
(* align_and_bucket_loss_simple, max_correlation_with_shift and            *)
(* build_correlation_matrix (topology.py)                                  *)
(*                                                                         *)
(* A slot record is [ts, tx, rx, late].  A loss fraction is the fraction   *)
(* <<lossy slots, slots>>.  A correlation r is kept exactly as the pair    *)
(* [cov, prod] with r = cov / sqrt(prod), and an entry of the matrix, which *)
(* is never negative, as the fraction <<cov^2, prod>> = r^2.               *)

StatCells == 1..NumStatCells
StatTimes == {0, 1, 5}
StatCounters == {[tx |-> 5, rx |-> 5, late |-> 0], [tx |-> 5, rx |-> 4, late |-> 0],
                 [tx |-> 5, rx |-> 5, late |-> 1], [tx |-> 4, rx |-> 5, late |-> 1]}

NoLoss == [tx |-> 5, rx |-> 5, late |-> 0]
Loss == [tx |-> 5, rx |-> 4, late |-> 0]

SlotRecord(t, k) == [ts |-> t, tx |-> k.tx, rx |-> k.rx, late |-> k.late]

\* the sorted record lists of at most MaxStatRecs slots
StatRecordSeqs ==
    UNION {{r \in [1..n -> {SlotRecord(t, k) : t \in StatTimes, k \in StatCounters}] :
               \A i \in 1..(n - 1) : r[i].ts <= r[i + 1].ts} : n \in 1..MaxStatRecs}

\* cell 1 has any short record list, cell 2 one slot at any time, the
\* other cells one slot
ShortStats ==
    {[c \in StatCells |-> IF c = 1 THEN r
                          ELSE IF c = 2 THEN <<SlotRecord(t, NoLoss)>>
                          ELSE <<SlotRecord(1, NoLoss)>>] :
        r \in StatRecordSeqs, t \in StatTimes}

\* a burst of w lossy buckets starting at bucket s
LossBursts(n) ==
    {[b \in 1..n |-> b >= s /\ b < s + w] : s \in 1..BurstStarts, w \in 0..BurstWidth}

LongLens == {MinBuckets, MinBuckets + ExtraBuckets}

\* one slot per bucket; cells 1 and 2 have a loss burst each, cell 3 loses
\* the buckets 2 and 3, cell 4 the last two buckets, the other cells nothing
LongStats ==
    UNION {{[c \in StatCells |-> [b \in 1..n |->
               SlotRecord((b - 1) * BUCKET_SEC,
                          IF \/ c = 1 /\ p[b]
                             \/ c = 2 /\ q[b]
                             \/ c = 3 /\ b \in {2, 3}
                             \/ c = 4 /\ b >= n - 1
                          THEN Loss ELSE NoLoss)]] :
               p \in LossBursts(n), q \in LossBursts(n)} : n \in LongLens}

\* df["loss_slot"] = tx_packets - rx_packets + too_late_rx > 0
LossSlot(r) == r.tx - r.rx + r.late > 0

AllTs(ps) == UNION {{ps[c][k].ts : k \in 1..Len(ps[c])} : c \in DOMAIN ps}

\* the + 1 forgotten
NBucketsShort(ps) == (SetMax(AllTs(ps)) - SetMin(AllTs(ps))) \div BUCKET_SEC

\* n_buckets = int((all_t_max - all_t_min) / bucket_sec) + 1
NBuckets(ps) == (SetMax(AllTs(ps)) - SetMin(AllTs(ps))) \div BUCKET_SEC + 1

\* df["bucket"] = ((df["timestamp"] - t_base) / bucket_sec).astype(int)
BucketIndex(ts, base) == (ts - base) \div BUCKET_SEC

\* arr of one cell: the mean of loss_slot per bucket 0 .. n - 1, 0 where
\* the cell has no slot
BucketedCell(recs, base, n) ==
    [b \in 1..n |->
        LET slots == {k \in 1..Len(recs) : BucketIndex(recs[k].ts, base) = b - 1}
        IN  IF slots = {} THEN <<0, 1>>
            ELSE <<Cardinality({k \in slots : LossSlot(recs[k])}), Cardinality(slots)>>]

\* a common denominator of the fractions of two series
CommonDen(a, b) ==
    LET dens == {a[i][2] : i \in 1..Len(a)} \cup {b[i][2] : i \in 1..Len(b)}
    IN  CHOOSE m \in 1..(SetMax(dens) * SetMax(dens)) :
            /\ \A d \in dens : m % d = 0
            /\ \A k \in 1..(m - 1) : \E d \in dens : k % d # 0

Scaled(a, den) == [i \in 1..Len(a) |-> a[i][1] * (den \div a[i][2])]

RECURSIVE Dot(_, _)
Dot(x, y) == IF Len(x) = 0 THEN 0 ELSE x[1] * y[1] + Dot(Tail(x), Tail(y))

Ones(n) == [i \in 1..n |-> 1]

\* pearsonr(x, y): r = cov / sqrt(prod), not a number when prod = 0
Pearson(x, y) ==
    LET n == Len(x)
        sx == Dot(x, Ones(n))
        sy == Dot(y, Ones(n))
    IN  [cov |-> n * Dot(x, y) - sx * sy,
         prod |-> (n * Dot(x, x) - sx * sx) * (n * Dot(y, y) - sy * sy)]

\* np.isfinite(r) and r > best
Exceeds(r, best) ==
    /\ r.prod > 0
    /\ IF r.cov >= 0
       THEN best.cov < 0 \/ r.cov * r.cov * best.prod > best.cov * best.cov * r.prod
       ELSE best.cov < 0 /\ r.cov * r.cov * best.prod < best.cov * best.cov * r.prod

\* shifts = list(range(-max_shift, max_shift + 1, step)), max_shift appended
\* when the range does not end on it
Shifts(maxShift) ==
    LET step == Max2(1, maxShift \div 8)
        count == (2 * maxShift) \div step + 1
        base == [k \in 1..count |-> (k - 1) * step - maxShift]
    IN  IF base[count] # maxShift THEN Append(base, maxShift) ELSE base

\* a_sub and b_sub for the shift s, cut to the same length
ShiftedPair(a, b, s) ==
    LET L == Len(a)
        aSub == IF s >= 0
                THEN (IF s < L THEN SubSeq(a, 1, L - s) ELSE SubSeq(a, 1, 1))
                ELSE (IF -s < L THEN SubSeq(a, 1 - s, L) ELSE SubSeq(a, L, L))
        bSub == IF s >= 0
                THEN (IF s < L THEN SubSeq(b, s + 1, L) ELSE SubSeq(b, L, L))
                ELSE (IF -s < L THEN SubSeq(b, 1, L + s) ELSE SubSeq(b, 1, 1))
        mn == Min2(Len(aSub), Len(bSub))
    IN  [a |-> SubSeq(aSub, 1, mn), b |-> SubSeq(bSub, 1, mn),
         skip |-> Len(aSub) < MinBuckets \/ Len(bSub) < MinBuckets]

\* the loop over the shifts from shift number k on
RECURSIVE BestOver(_, _, _, _, _)
BestOver(a, b, shifts, k, best) ==
    IF k > Len(shifts) THEN best
    ELSE LET sp == ShiftedPair(a, b, shifts[k]) IN
         IF sp.skip THEN BestOver(a, b, shifts, k + 1, best)
         ELSE LET r == Pearson(sp.a, sp.b)
              IN  BestOver(a, b, shifts, k + 1, IF Exceeds(r, best) THEN r ELSE best)

\* max_correlation_with_shift(a, b, max_shift): max(best, 0.0), squared
MaxCorrelationWithShift(fa, fb, maxShift) ==
    IF Len(fa) < MinBuckets THEN <<0, 1>>
    ELSE LET den == CommonDen(fa, fb)
             best == BestOver(Scaled(fa, den), Scaled(fb, den), Shifts(maxShift), 1,
                              [cov |-> -1, prod |-> 1])
         IN  IF best.cov <= 0 THEN <<0, 1>> ELSE <<best.cov * best.cov, best.prod>>

\* max_shift = int(MAX_SHIFT_SEC / bucket_sec)
MaxShift == MAX_SHIFT_SEC \div BUCKET_SEC

\* the pairs i < j from <<i, j>> on, in the order of the two loops
RECURSIVE PairsFrom(_, _, _)
PairsFrom(i, j, n) ==
    IF i >= n THEN <<>>
    ELSE IF j > n THEN PairsFrom(i + 1, i + 2, n)
    ELSE <<(<<i, j>>)>> \o PairsFrom(i, j + 1, n)

PairsInOrder(n) == PairsFrom(1, 2, n)

\* only corr[i, j] is written
SetPairOneSided(c, i, j, r) == [c EXCEPT ![<<i, j>>] = r]

\* corr[i, j] = corr[j, i] = r
SetPair(c, i, j, r) == [c EXCEPT ![<<i, j>>] = r, ![<<j, i>>] = r]

InitCorr ==
    /\ LoadIdle
    /\ ApiIdle
    /\ CapIdle
    /\ TopoIdle
    /\ AggIdle
    /\ RcaIdle
    /\ cpc = "start"
    /\ pktStats \in ShortStats \cup LongStats
    /\ bucketed = <<>>
    /\ tBase = 0
    /\ nBuckets = 0
    /\ pairQueue = <<>>
    /\ corr = <<>>
    /\ clusters = {}
    /\ merges = <<>>
    /\ confidence = <<>>
    /\ outliers = <<>>

\* bucketed, _, n_buckets = align_and_bucket_loss_simple(pkt_stats);
\* corr = np.eye(n)
AlignAndBucket ==
    /\ cpc = "start"
    /\ tBase' = SetMin(AllTs(pktStats))
    /\ nBuckets' = NBuckets(pktStats)
    /\ bucketed' = [c \in DOMAIN pktStats |->
                       BucketedCell(pktStats[c], tBase', nBuckets')]
    /\ corr' = [q \in StatCells \X StatCells |-> IF q[1] = q[2] THEN <<1, 1>> ELSE <<0, 1>>]
    /\ pairQueue' = PairsInOrder(NumStatCells)
    /\ cpc' = "pairs"
    /\ UNCHANGED <<pktStats, clusters, merges, confidence, outliers, capVars, topoVars, aggVars, rcaVars, loadVars, apiVars>>

\* one pass of the inner loop with i < j
CorrelatePair ==
    /\ cpc = "pairs"
    /\ pairQueue # <<>>
    /\ LET i == Head(pairQueue)[1]
           j == Head(pairQueue)[2]
       IN  corr' = SetPair(corr, i, j,
                           MaxCorrelationWithShift(bucketed[i], bucketed[j], MaxShift))
    /\ pairQueue' = Tail(pairQueue)
    /\ UNCHANGED <<cpc, pktStats, bucketed, tBase, nBuckets, clusters, merges, confidence, outliers,
                   capVars, topoVars, aggVars, rcaVars, loadVars, apiVars>>

\* return corr, cells
CorrReturn ==
    /\ cpc = "pairs"
    /\ pairQueue = <<>>
    /\ cpc' = "done"
    /\ UNCHANGED <<pktStats, bucketed, tBase, nBuckets, pairQueue, corr, clusters, merges,
                   confidence, outliers, capVars, topoVars, aggVars, rcaVars, loadVars, apiVars>>

NextCorr == AlignAndBucket \/ CorrelatePair \/ CorrReturn

SpecCorr == InitCorr /\ [][NextCorr]_vars

---------------------------------------------------------------------------
(* Properties of the correlation matrix and of the bucketing *)

\* equality and order of fractions with positive denominators
FracEq(x, y) == x[1] * y[2] = y[1] * x[2]

\* the shifts for which a correlation of the two series is computed
EvaluatedShifts(a, b) ==
    {s \in (0 - MaxShift)..MaxShift : ~ShiftedPair(a, b, s).skip}

\* the correlation at shift s is a number greater than 0
PositiveAt(a, b, s) ==
    LET den == CommonDen(a, b)
        sp == ShiftedPair(Scaled(a, den), Scaled(b, den), s)
        r == Pearson(sp.a, sp.b)
    IN  r.prod > 0 /\ r.cov > 0

\* C12: the matrix is symmetric with unit diagonal and entries in [0, 1];
\* a pair of series shorter than 10 buckets, or whose correlation is
\* negative or undefined at every evaluated shift, has the entry 0.
C12_SymmetricBounded ==
    cpc \in {"pairs", "done"} =>
        /\ \A i, j \in StatCells :
              /\ FracEq(corr[<<i, j>>], corr[<<j, i>>])
              /\ corr[<<i, j>>][2] > 0
              /\ 0 <= corr[<<i, j>>][1]
              /\ corr[<<i, j>>][1] <= corr[<<i, j>>][2]
        /\ \A i \in StatCells : FracEq(corr[<<i, i>>], <<1, 1>>)
        /\ cpc = "done" =>
              \A i, j \in StatCells :
                  (i # j /\ (nBuckets < MinBuckets
                             \/ \A s \in EvaluatedShifts(bucketed[i], bucketed[j]) :
                                    ~PositiveAt(bucketed[i], bucketed[j], s)))
                      => corr[<<i, j>>][1] = 0

\* the correlation of the two series at shift 0 is a number below 1
BelowOneUnshifted(a, b) ==
    LET r == Pearson(Scaled(a, CommonDen(a, b)), Scaled(b, CommonDen(a, b)))
    IN  r.prod > 0 /\ (r.cov < 0 \/ r.cov * r.cov < r.prod)

\* a matrix with an entry strictly between 0 and 1, an entry 1 that is
\* reached at a shift other than 0 only, and an entry 0 of a pair whose
\* correlation is negative
C12_Witness ==
    /\ cpc = "done"
    /\ nBuckets > MinBuckets
    /\ \E i, j \in StatCells :
          0 < corr[<<i, j>>][1] /\ corr[<<i, j>>][1] < corr[<<i, j>>][2]
    /\ \E i, j \in StatCells :
          /\ i # j
          /\ corr[<<i, j>>][1] = corr[<<i, j>>][2]
          /\ BelowOneUnshifted(bucketed[i], bucketed[j])
    /\ \E i, j \in StatCells :
          /\ i # j
          /\ corr[<<i, j>>][1] = 0
          /\ BelowOneUnshifted(bucketed[i], bucketed[j])
          /\ ~PositiveAt(bucketed[i], bucketed[j], 0)

\* the slots of a cell whose timestamp lies in bucket b (counted from 1)
SlotsInBucket(recs, b) ==
    {k \in 1..Len(recs) : /\ recs[k].ts >= tBase + (b - 1) * BUCKET_SEC
                          /\ recs[k].ts < tBase + b * BUCKET_SEC}

\* C19: every cell's series has n_buckets = int((max - min) / bucket_sec) + 1
\* entries counted from the global minimum timestamp; an entry is the
\* fraction of the cell's slots of that bucket with tx - rx + late_rx > 0,
\* lies in [0, 1] and is 0 for a bucket without slots; every slot lies in
\* one of the buckets.
C19_Bucketing ==
    cpc # "start" =>
        /\ tBase = SetMin(AllTs(pktStats))
        /\ nBuckets = (SetMax(AllTs(pktStats)) - SetMin(AllTs(pktStats))) \div BUCKET_SEC + 1
        /\ \A c \in StatCells :
              /\ Len(bucketed[c]) = nBuckets
              /\ \A k \in 1..Len(pktStats[c]) :
                    \E b \in 1..nBuckets : k \in SlotsInBucket(pktStats[c], b)
              /\ \A b \in 1..nBuckets :
                    LET slots == SlotsInBucket(pktStats[c], b)
                        lossy == {k \in slots : pktStats[c][k].tx - pktStats[c][k].rx
                                                    + pktStats[c][k].late > 0}
                        v == bucketed[c][b]
                    IN  /\ v[2] > 0 /\ 0 <= v[1] /\ v[1] <= v[2]
                        /\ slots = {} => v[1] = 0
                        /\ slots # {} => v[1] * Cardinality(slots) = Cardinality(lossy) * v[2]

\* a cell that starts after the global minimum, with a bucket holding a
\* lossy and a clean slot and a bucket without slots
C19_Witness ==
    /\ cpc # "start"
    /\ \E c \in StatCells :
          /\ pktStats[c][1].ts > tBase
          /\ \E b \in 1..nBuckets : FracEq(bucketed[c][b], <<1, 2>>)
          /\ \E b \in 1..nBuckets : SlotsInBucket(pktStats[c], b) = {}

---------------------------------------------------------------------------
(* root_cause_attribution for one link (capacity.py)                       *)
(*                                                                         *)
(* Demand and capacity in the units of the capacity part.  A share is the  *)
(* fraction <<100 * cell demand, aggregate demand>>.                       *)

RcaLink == 1
RcaCells == {1, 2, 3}
RcaLevels == <<300, 500, 200>>     \* 3, 5 and 2 Gbps
RcaCaps == {0, 250 * CapUnit, 700 * CapUnit}
MaxEventsVals == {2, 5}

\* slot_ts of a series of n slots starting at 0
SlotTs(n) ==
    [k \in 1..n |-> (k - 1) * SYMBOLS_PER_SLOT * SymbolDuration
                        + (SYMBOLS_PER_SLOT * SymbolDuration) \div 2]

\* in every slot each cell is silent or sends at one of the three levels,
\* which rotate over the cells from slot to slot
RcaItems ==
    UNION {{LET cd == [c \in RcaCells |-> [i \in 1..n |->
                          IF on[i][c] THEN RcaLevels[((c + i) % 3) + 1] ELSE 0]]
            IN  [ts |-> SlotTs(n), demand |-> AggregateOf(cd, n), cellDemand |-> cd] :
               on \in [1..n -> [RcaCells -> BOOLEAN]]} : n \in 1..MaxLen}

\* the item of a link without cells
EmptyItem == [ts |-> <<>>, demand |-> <<>>, cellDemand |-> EmptyMap]

\* np.where(demand_gbps > cap)[0]
CongSlots(dem, cap) ==
    SelectSeq([i \in 1..Len(dem) |-> i], LAMBDA i : dem[i] * CapUnit > cap)

\* the slice forgotten
TakeAll(list, n) == list

\* list[:n]
Take(list, n) == SubSeq(list, 1, Min2(n, Len(list)))

\* the keys of a dict filled in the order of the cell ids
RECURSIVE KeysInOrder(_)
KeysInOrder(S) ==
    IF S = {} THEN <<>> ELSE <<SetMin(S)>> \o KeysInOrder(S \ {SetMin(S)})

\* [(cid, 100 * per_cell_demand[cid][idx] / total) for cid in per_cell_demand]
Contribs(cd, idx, total) ==
    [k \in 1..Cardinality(DOMAIN cd) |->
        <<KeysInOrder(DOMAIN cd)[k], <<100 * cd[KeysInOrder(DOMAIN cd)[k]][idx], total>>>>]

\* [(c, p) for c, p in contribs if p > 0]
PositiveContribs(contribs) == SelectSeq(contribs, LAMBDA x : x[2][1] > 0)

\* x placed ascending: before the first entry with a larger share
RECURSIVE InsertAscending(_, _)
InsertAscending(sorted, x) ==
    IF Len(sorted) = 0 THEN <<x>>
    ELSE IF ~PctLeq(sorted[1][2], x[2]) THEN <<x>> \o sorted
    ELSE <<sorted[1]>> \o InsertAscending(Tail(sorted), x)

\* x placed into a list sorted by -share, behind the entries that are not
\* smaller (list.sort is stable)
RECURSIVE InsertByShare(_, _)
InsertByShare(sorted, x) ==
    IF Len(sorted) = 0 THEN <<x>>
    ELSE IF ~PctLeq(x[2], sorted[1][2]) THEN <<x>> \o sorted
    ELSE <<sorted[1]>> \o InsertByShare(Tail(sorted), x)

\* contribs.sort(key=lambda x: -x[1])
RECURSIVE SortByShare(_)
SortByShare(contribs) ==
    IF Len(contribs) = 0 THEN <<>>
    ELSE InsertByShare(SortByShare(SubSeq(contribs, 1, Len(contribs) - 1)),
                       contribs[Len(contribs)])

\* (t, contribs[:2]) of the congested slot idx
EventOf(item, idx) ==
    [t |-> item.ts[idx],
     contribs |-> Take(SortByShare(PositiveContribs(
                          Contribs(item.cellDemand, idx, item.demand[idx]))), 2)]

InitRca ==
    /\ LoadIdle
    /\ ApiIdle
    /\ CapIdle
    /\ TopoIdle
    /\ AggIdle
    /\ ClusterIdle
    /\ CorrIdle
    /\ rpc = "start"
    /\ \/ /\ rcaDemand \in RcaItems
          /\ rcaCap \in RcaCaps
       \/ /\ rcaDemand = EmptyItem
          /\ rcaCap = 0
    /\ maxEvents \in MaxEventsVals
    /\ congQueue = <<>>
    /\ linkEvents = <<>>
    /\ events = EmptyMap

\* if cap <= 0 or not per_cell_demand: continue
RcaSkipLink ==
    /\ rpc = "start"
    /\ rcaCap <= 0 \/ DOMAIN rcaDemand.cellDemand = {}
    /\ rpc' = "done"
    /\ UNCHANGED <<rcaDemand, rcaCap, maxEvents, congQueue, linkEvents, events,
                   capVars, topoVars, aggVars, clusterVars, corrVars, loadVars, apiVars>>

\* cong_slots = np.where(demand_gbps > cap)[0]; link_events = []
RcaCongSlots ==
    /\ rpc = "start"
    /\ ~(rcaCap <= 0 \/ DOMAIN rcaDemand.cellDemand = {})
    /\ congQueue' = Take(CongSlots(rcaDemand.demand, rcaCap), maxEvents)
    /\ linkEvents' = <<>>
    /\ rpc' = "events"
    /\ UNCHANGED <<rcaDemand, rcaCap, maxEvents, events,
                   capVars, topoVars, aggVars, clusterVars, corrVars, loadVars, apiVars>>

\* one pass of the loop over cong_slots[:max_events_per_link]
RcaEvent ==
    /\ rpc = "events"
    /\ congQueue # <<>>
    /\ linkEvents' = IF rcaDemand.demand[Head(congQueue)] <= 0 THEN linkEvents
                     ELSE Append(linkEvents, EventOf(rcaDemand, Head(congQueue)))
    /\ congQueue' = Tail(congQueue)
    /\ UNCHANGED <<rpc, rcaDemand, rcaCap, maxEvents, events,
                   capVars, topoVars, aggVars, clusterVars, corrVars, loadVars, apiVars>>

\* if link_events: events[link_id] = link_events
RcaReturn ==
    /\ rpc = "events"
    /\ congQueue = <<>>
    /\ events' = IF linkEvents # <<>> THEN Put(events, RcaLink, linkEvents) ELSE events
    /\ rpc' = "done"
    /\ UNCHANGED <<rcaDemand, rcaCap, maxEvents, congQueue, linkEvents,
                   capVars, topoVars, aggVars, clusterVars, corrVars, loadVars, apiVars>>

NextRca == RcaSkipLink \/ RcaCongSlots \/ RcaEvent \/ RcaReturn

SpecRca == InitRca /\ [][NextRca]_vars

---------------------------------------------------------------------------
(* Properties of the attribution *)

\* the events reported for the link
Reported == IF RcaLink \in DOMAIN events THEN events[RcaLink] ELSE <<>>

\* the slot of the series with the timestamp t
SlotAt(t) == CHOOSE i \in 1..Len(rcaDemand.ts) : rcaDemand.ts[i] = t

\* 100 * cell_demand / aggregate_demand of the cell in the slot
ShareOf(c, i) == <<100 * rcaDemand.cellDemand[c][i], rcaDemand.demand[i]>>

\* C16: every reported event lists at most two contributors, each with its
\* share 100 * cell_demand / aggregate_demand > 0, in non-increasing order
\* of share, and no cell left out has a larger share than a listed cell.
C16_TopTwoContributors ==
    rpc = "done" =>
        \A e \in 1..Len(Reported) :
            LET list == Reported[e].contribs
                i == SlotAt(Reported[e].t)
                listed == {list[k][1] : k \in 1..Len(list)}
            IN  /\ Len(list) <= 2
                /\ Cardinality(listed) = Len(list)
                /\ \A k \in 1..Len(list) :
                      /\ list[k][1] \in DOMAIN rcaDemand.cellDemand
                      /\ FracEq(list[k][2], ShareOf(list[k][1], i))
                      /\ list[k][2][1] > 0
                /\ \A k \in 1..(Len(list) - 1) : PctLeq(list[k + 1][2], list[k][2])
                /\ \A c \in DOMAIN rcaDemand.cellDemand \ listed :
                      \A k \in 1..Len(list) : PctLeq(ShareOf(c, i), list[k][2])

\* an event of a slot in which three cells send: the two largest are
\* listed, the larger first, and it is not the order of the cell ids
C16_Witness ==
    /\ rpc = "done"
    /\ \E e \in 1..Len(Reported) :
          LET list == Reported[e].contribs
              i == SlotAt(Reported[e].t)
          IN  /\ \A c \in RcaCells : rcaDemand.cellDemand[c][i] > 0
              /\ Len(list) = 2
              /\ list[1][1] > list[2][1]
              /\ ~PctLeq(list[1][2], list[2][2])

\* the slots whose aggregate demand exceeds the capacity, in time order
Congested == {i \in 1..Len(rcaDemand.demand) : rcaDemand.demand[i] * CapUnit > rcaCap}

\* C17: for a positive capacity the events are exactly the first
\* min(n, max_events_per_link) congested slots in time order, n the number
\* of slots with aggregate demand above the capacity; none has zero demand.
C17_FirstCongestedSlots ==
    (rpc = "done" /\ rcaCap > 0) =>
        /\ Len(Reported) = Min2(Cardinality(Congested), maxEvents)
        /\ \A e \in 1..Len(Reported) :
              /\ \E i \in Congested :
                    /\ Reported[e].t = rcaDemand.ts[i]
                    /\ Cardinality({j \in Congested : j < i}) = e - 1
                    /\ rcaDemand.demand[i] > 0

\* more congested slots than events may be reported: the last congested
\* slot has no event
C17_Witness ==
    /\ rpc = "done"
    /\ rcaCap > 0
    /\ Cardinality(Congested) > maxEvents
    /\ Len(Reported) = maxEvents
    /\ \E i \in Congested : \A e \in 1..Len(Reported) : Reported[e].t < rcaDemand.ts[i]

---------------------------------------------------------------------------
(* load_throughput (data_loader.py)                                        *)
(*                                                                         *)
(* A sample is [ts, kbit]; the timestamps of a file are distinct.          *)

SampleVals == {0, 10, 1000}
SpikeVals == {50, 1000}

\* files of at most MaxSamples samples, in any order
ShortFiles ==
    UNION {{r \in [1..n -> [ts : 1..n, kbit : SampleVals]] :
               \A i, j \in 1..n : i # j => r[i].ts # r[j].ts} : n \in 1..MaxSamples}

\* long files at a base rate with spikes at the ends, written in
\* ascending or descending time order
LongFiles ==
    UNION {{[i \in 1..n |-> [ts |-> IF rev THEN n + 1 - i ELSE i,
                              kbit |-> IF i \in S THEN spike ELSE base]] :
               base \in {0, 10}, spike \in SpikeVals,
               S \in {{}, {1}, {n}, {1, n}}, rev \in BOOLEAN} :
           n \in {BurstyLen, SparseLen}}

\* the threshold of a stream without positive 99th percentile
NoOutlierThreshold == 1000000000

Kbits(df) == [i \in 1..Len(df) |-> df[i].kbit]

\* df["bits_kbit"] > threshold, for one sample
AboveThreshold(v, vals) ==
    LET q99 == PercentileX100(vals, 99)
        median == PercentileX100(vals, 50)
    IN  IF q99 > 0 THEN 100 * v > Max2(q99 * 2, median * 10)
        ELSE v > NoOutlierThreshold

\* df.loc[df["bits_kbit"] > threshold, "bits_kbit"] = 0
Scrubbed(df) ==
    IF Len(df) > 0
    THEN [i \in 1..Len(df) |->
             [df[i] EXCEPT !.kbit = IF AboveThreshold(df[i].kbit, Kbits(df)) THEN 0 ELSE @]]
    ELSE df

InitLoad ==
    /\ CapIdle
    /\ TopoIdle
    /\ AggIdle
    /\ ClusterIdle
    /\ CorrIdle
    /\ RcaIdle
    /\ ApiIdle
    /\ lpc = "read"
    /\ rawBits \in ShortFiles \cup LongFiles
    /\ bitsKbit = <<>>

\* df.sort_values("timestamp").reset_index(drop=True)
LoadSort ==
    /\ lpc = "read"
    /\ bitsKbit' = SortSeq(rawBits, LAMBDA a, b : a.ts < b.ts)
    /\ lpc' = "sorted"
    /\ UNCHANGED <<rawBits, capVars, topoVars, aggVars, clusterVars, corrVars, rcaVars,
                   apiVars>>

\* the outlier removal; return df
LoadScrub ==
    /\ lpc = "sorted"
    /\ bitsKbit' = Scrubbed(bitsKbit)
    /\ lpc' = "done"
    /\ UNCHANGED <<rawBits, capVars, topoVars, aggVars, clusterVars, corrVars, rcaVars,
                   apiVars>>

NextLoad == LoadSort \/ LoadScrub

SpecLoad == InitLoad /\ [][NextLoad]_vars

---------------------------------------------------------------------------
(* Properties of load_throughput *)

\* the raw sample with the timestamp of the i-th returned sample
RawAt(i) == (CHOOSE k \in 1..Len(rawBits) : rawBits[k].ts = bitsKbit[i].ts)

\* C22: the returned stream holds the samples of the file in time order,
\* with 0 in place of exactly the values above max(2 x p99, 10 x median)
\* of the stream and every other value unchanged, also when the 99th
\* percentile is 0.
C22_ScrubAboveMax ==
    lpc = "done" =>
        /\ Len(bitsKbit) = Len(rawBits)
        /\ \A i \in 1..Len(bitsKbit) :
              LET v == rawBits[RawAt(i)].kbit
                  vals == Kbits(rawBits)
              IN  bitsKbit[i].kbit =
                     IF 100 * v > Max2(2 * PercentileX100(vals, 99),
                                       10 * PercentileX100(vals, 50))
                     THEN 0 ELSE v

---------------------------------------------------------------------------
(* The what-if API (pocket_noc/backend/api.py)                             *)
(*                                                                         *)
(* _state is the record [mode, topology, demand, capNoBuf, capWithBuf,     *)
(* confidence, reduction]; a demand dict maps a link id to the item [ts,   *)
(* demand, traffic, cellDemand].  A dict of multipliers is [str, int]: the *)
(* values under the keys str(cid) and under the keys cid.  A response is   *)
(* [endpoint, status, body]; of the body the topology, the capacities, the *)
(* savings and the traffic summary are kept, the other fields being        *)
(* computed from the same arguments.  str(link_id) is kept as link_id.     *)

ApiCells == {1, 2}
MultVals == {0, 1, 2}
ConfidenceVals == {0, 75}

\* the partial maps of the keys to multipliers
KeyMaps(keys) == UNION {[S -> MultVals] : S \in SUBSET keys}

\* req.traffic_multipliers or {}: the keys of a JSON object are strings; a
\* request names the cells it switches off or doubles
RequestMultipliers ==
    {[str |-> f, int |-> EmptyMap] :
        f \in {g \in KeyMaps(ApiCells) : \A c \in DOMAIN g : g[c] # 1}}

\* the dicts apply_multipliers is called with
AllMultipliers == {[str |-> f, int |-> g] : f \in KeyMaps(ApiCells), g \in KeyMaps({1})}

\* the integer key looked up first
MultOfIntFirst(cid, mult) ==
    IF cid \in DOMAIN mult.int THEN mult.int[cid]
    ELSE IF cid \in DOMAIN mult.str THEN mult.str[cid]
    ELSE 1

\* multipliers.get(str(cid), multipliers.get(cid, 1.0))
MultOf(cid, mult) ==
    IF cid \in DOMAIN mult.str THEN mult.str[cid]
    ELSE IF cid \in DOMAIN mult.int THEN mult.int[cid]
    ELSE 1

\* new_aggregate = demand_gbps: the array of the input under a second name
SameArray(arr) == [ref |-> "input", val |-> arr]

\* np.zeros_like(demand_gbps): a new array
ZerosLike(arr) == [ref |-> "new", val |-> [i \in 1..Len(arr) |-> 0]]

\* arr * mult
RECURSIVE ScaleArray(_, _)
ScaleArray(arr, m) ==
    IF Len(arr) = 0 THEN <<>> ELSE <<arr[1] * m>> \o ScaleArray(Tail(arr), m)

\* a + b, slot by slot
RECURSIVE AddArrays(_, _)
AddArrays(a, b) ==
    IF Len(a) = 0 THEN <<>> ELSE <<a[1] + b[1]>> \o AddArrays(Tail(a), Tail(b))

\* arr >= 0.01
RECURSIVE AboveThresholdMaskAtLeast(_)
AboveThresholdMaskAtLeast(arr) ==
    IF Len(arr) = 0 THEN <<>>
    ELSE <<arr[1] >= TrafficThreshold>> \o AboveThresholdMaskAtLeast(Tail(arr))

\* arr > 0.01
RECURSIVE AboveThresholdMask(_)
AboveThresholdMask(arr) ==
    IF Len(arr) = 0 THEN <<>>
    ELSE <<arr[1] > TrafficThreshold>> \o AboveThresholdMask(Tail(arr))

\* new_aggregate += scaled, for the cells k.. of the item
RECURSIVE Accumulate(_, _, _, _)
Accumulate(agg, scaled, cells, k) ==
    IF k > Len(cells) THEN agg
    ELSE Accumulate(AddArrays(agg, scaled[cells[k]]), scaled, cells, k + 1)

\* the body of the loop over demand.items(): the new item and the item
\* of the input as the loop leaves it
ApplyToItem(item, mult) ==
    LET cells == KeysInOrder(DOMAIN item.cellDemand)
        start == ZerosLike(item.demand)
        scaled == [c \in DOMAIN item.cellDemand |->
                      ScaleArray(item.cellDemand[c], MultOf(c, mult))]
        agg == Accumulate(start.val, scaled, cells, 1)
    IN  [out |-> [ts |-> item.ts,
                  demand |-> agg,
                  traffic |-> [c \in DOMAIN scaled |-> AboveThresholdMask(scaled[c])],
                  cellDemand |-> scaled],
         input |-> IF start.ref = "input" THEN [item EXCEPT !.demand = agg] ELSE item]

\* apply_multipliers(demand, multipliers): the dict returned and the dict
\* passed as the call leaves it
ApplyMultipliers(dem, mult) ==
    [out |-> [l \in DOMAIN dem |-> ApplyToItem(dem[l], mult).out],
     input |-> [l \in DOMAIN dem |-> ApplyToItem(dem[l], mult).input]]

\* for _ in range(50): ...; return hi (the bounds r of an iteration are
\* computed before the next iteration is entered)
RECURSIVE BisectLoop(_, _, _, _, _, _)
BisectLoop(dem, traffic, maxLoss, l, h, k) ==
    IF k = 0 THEN h
    ELSE CHOOSE c \in {BisectLoop(dem, traffic, maxLoss, r[1], r[2], k - 1) :
                        r \in {Bisect(dem, traffic, maxLoss, l, h)}} : TRUE

\* capacity_with_buffer(slot_ts, demand_gbps, per_cell_traffic)
CapacityWithBuffer(dem, traffic, maxLoss) ==
    IF Len(dem) = 0 THEN 0
    ELSE BisectLoop(dem, traffic, maxLoss, 0, InitialHi(dem), MaxIter)

\* the loop over demand.items() of load_initial_state and of simulate
CapsOf(dem) ==
    [noBuf |-> [l \in DOMAIN dem |->
                   CapacityWithoutBuffer(dem[l].demand, LinkTrafficMask(dem[l].demand),
                                         dem[l].traffic, MAX_PACKET_LOSS_PCT)],
     withBuf |-> [l \in DOMAIN dem |->
                     CapacityWithBuffer(dem[l].demand, dem[l].traffic, MAX_PACKET_LOSS_PCT)]]

\* compute_capacity_reduction(cap_no_buf, cap_with_buf)
ReductionOf(noBuf, withBuf) ==
    [l \in DOMAIN noBuf |->
        IF noBuf[l] > 0 THEN RoundHalfEven(100 * (noBuf[l] - withBuf[l]), noBuf[l]) ELSE 0]

\* the per-cell series of the cache: cell 1 at any level in any slot, cell 2
\* at one level throughout and never silent
ApiSeries ==
    UNION {{<<a, [i \in 1..n |-> b]>> : a \in [1..n -> CellDemandVals], b \in {1, 500}} :
              n \in 1..ApiSlots}

\* the item aggregate_link_demand_slot_level returns for the cells of a link
ItemOf(cd, cells) ==
    IF cells = <<>> THEN EmptySeries
    ELSE LET own == [c \in {cells[i] : i \in 1..Len(cells)} |-> cd[c]]
             n == Len(cd[cells[1]])
         IN  [ts |-> SlotTs(n), demand |-> AggregateOf(own, n),
              traffic |-> TrafficOf(own), cellDemand |-> own]

DemandOf(topo, cd) == [l \in DOMAIN topo |-> ItemOf(cd, topo[l])]

ApiDemands == {DemandOf(topo, cd) : topo \in AggTopologies, cd \in ApiSeries}

\* _state as load_initial_state leaves it
DataStates ==
    {LET dem == DemandOf(topo, cd)
         caps == CapsOf(dem)
     IN  [mode |-> "data", topology |-> topo, demand |-> dem,
          capNoBuf |-> caps.noBuf, capWithBuf |-> caps.withBuf,
          confidence |-> [l \in DOMAIN topo |-> conf],
          reduction |-> ReductionOf(caps.noBuf, caps.withBuf)] :
        topo \in AggTopologies, cd \in ApiSeries, conf \in ConfidenceVals}

\* _state as startup leaves it from a precomputed results.json
StaticStates ==
    {[s EXCEPT !.mode = "static", !.demand = EmptyMap] :
        s \in {d \in DataStates : \A l \in DOMAIN d.demand : Len(d.demand[l].ts) <= 1}}

\* _state as startup leaves it without data and without results.json
EmptyState ==
    [mode |-> "empty", topology |-> EmptyMap, demand |-> EmptyMap, capNoBuf |-> EmptyMap,
     capWithBuf |-> EmptyMap, confidence |-> EmptyMap, reduction |-> EmptyMap]

\* _compute_traffic_summary(demand): the links with at least one slot
TrafficSummary(dem) ==
    [l \in {k \in DOMAIN dem : Len(dem[k].ts) > 0} |-> dem[l].demand]

\* _build_response(demand, cap_no_buf, cap_with_buf, reduction)
BuildResponse(st, dem, noBuf, withBuf, reduction) ==
    [topology |-> [l \in DOMAIN st.topology |->
                      SortSeq(st.topology[l], LAMBDA a, b : a < b)],
     capNoBuf |-> [l \in DOMAIN noBuf |-> RoundHalfEven(noBuf[l], CapUnit)],
     capWithBuf |-> [l \in DOMAIN withBuf |-> RoundHalfEven(withBuf[l], CapUnit)],
     savings |-> reduction,
     confidence |-> st.confidence,
     trafficSummary |-> TrafficSummary(dem)]

\* response_model=SimulateResponse: the fields of the model
SimulateFields(body) ==
    [topology |-> body.topology, capNoBuf |-> body.capNoBuf,
     capWithBuf |-> body.capWithBuf, savings |-> body.savings]

\* _to_api_format(data)
StaticResponse(st) ==
    [topology |-> st.topology, capNoBuf |-> st.capNoBuf, capWithBuf |-> st.capWithBuf,
     savings |-> st.reduction, confidence |-> st.confidence, trafficSummary |-> EmptyMap]

InitApi ==
    /\ CapIdle
    /\ TopoIdle
    /\ AggIdle
    /\ ClusterIdle
    /\ CorrIdle
    /\ RcaIdle
    /\ LoadIdle
    /\ MultIdle
    /\ state \in DataStates \cup StaticStates \cup {EmptyState}
    /\ baseline = state
    /\ response = <<>>
    /\ lastSim = <<>>

\* GET /results in static mode
GetResultsStatic ==
    /\ state.mode = "static"
    /\ response' = [endpoint |-> "results", status |-> 200, body |-> StaticResponse(state)]
    /\ UNCHANGED <<state, baseline, lastSim, mpc, inDemand, multipliers, newDemand, newCaps,
                   capVars, topoVars, aggVars, clusterVars, corrVars, rcaVars, loadVars>>

\* GET /results: if not _state.get("topology")
GetResultsNoData ==
    /\ state.mode # "static"
    /\ DOMAIN state.topology = {}
    /\ response' = [endpoint |-> "results", status |-> 200, body |-> "No data loaded"]
    /\ UNCHANGED <<state, baseline, lastSim, mpc, inDemand, multipliers, newDemand, newCaps,
                   capVars, topoVars, aggVars, clusterVars, corrVars, rcaVars, loadVars>>

\* GET /results: _build_response(_state["demand"], _state["cap_no_buf"],
\* _state["cap_with_buf"])
GetResults ==
    /\ state.mode # "static"
    /\ DOMAIN state.topology # {}
    /\ response' = [endpoint |-> "results", status |-> 200,
                    body |-> BuildResponse(state, state.demand, state.capNoBuf,
                                           state.capWithBuf,
                                           ReductionOf(state.capNoBuf, state.capWithBuf))]
    /\ UNCHANGED <<state, baseline, lastSim, mpc, inDemand, multipliers, newDemand, newCaps,
                   capVars, topoVars, aggVars, clusterVars, corrVars, rcaVars, loadVars>>

\* POST /simulate in static mode: HTTPException(400)
SimulateStatic ==
    /\ state.mode = "static"
    /\ response' = [endpoint |-> "simulate", status |-> 400, body |-> "Static mode"]
    /\ UNCHANGED <<state, baseline, lastSim, mpc, inDemand, multipliers, newDemand, newCaps,
                   capVars, topoVars, aggVars, clusterVars, corrVars, rcaVars, loadVars>>

\* POST /simulate: if not _state.get("demand"): HTTPException(503)
SimulateNoData ==
    /\ state.mode # "static"
    /\ DOMAIN state.demand = {}
    /\ response' = [endpoint |-> "simulate", status |-> 503, body |-> "No data loaded"]
    /\ UNCHANGED <<state, baseline, lastSim, mpc, inDemand, multipliers, newDemand, newCaps,
                   capVars, topoVars, aggVars, clusterVars, corrVars, rcaVars, loadVars>>

\* POST /simulate with data
Simulate ==
    /\ state.mode # "static"
    /\ DOMAIN state.demand # {}
    /\ \E m \in RequestMultipliers :
          LET r == ApplyMultipliers(state.demand, m)
              caps == CapsOf(r.out)
              reduction == ReductionOf(caps.noBuf, caps.withBuf)
          IN  /\ state' = [state EXCEPT !.demand = r.input]
              /\ lastSim' = [demand |-> r.out, capNoBuf |-> caps.noBuf,
                             capWithBuf |-> caps.withBuf]
              /\ response' = [endpoint |-> "simulate", status |-> 200,
                              body |-> SimulateFields(
                                  BuildResponse(state, r.out, caps.noBuf, caps.withBuf,
                                                reduction))]
    /\ UNCHANGED <<baseline, mpc, inDemand, multipliers, newDemand, newCaps,
                   capVars, topoVars, aggVars, clusterVars, corrVars, rcaVars, loadVars>>

NextApi ==
    \/ GetResultsStatic
    \/ GetResultsNoData
    \/ GetResults
    \/ SimulateStatic
    \/ SimulateNoData
    \/ Simulate

SpecApi == InitApi /\ [][NextApi]_vars

\* what _build_response shows of a demand dict and its capacities
Shown(dem, noBuf, withBuf) ==
    [capNoBuf |-> [l \in DOMAIN noBuf |-> RoundHalfEven(noBuf[l], CapUnit)],
     capWithBuf |-> [l \in DOMAIN withBuf |-> RoundHalfEven(withBuf[l], CapUnit)],
     trafficSummary |-> TrafficSummary(dem)]

\* C23: GET /results with data loaded returns the baseline results while no
\* simulation has been run, and afterwards the demand and the capacities of
\* the last simulation
C23_ResultsAfterSimulate ==
    (DOMAIN response # {} /\ response.endpoint = "results" /\ state.mode = "data") =>
        LET shown == [capNoBuf |-> response.body.capNoBuf,
                      capWithBuf |-> response.body.capWithBuf,
                      trafficSummary |-> response.body.trafficSummary]
        IN  IF DOMAIN lastSim = {}
            THEN shown = Shown(baseline.demand, baseline.capNoBuf, baseline.capWithBuf)
            ELSE shown = Shown(lastSim.demand, lastSim.capNoBuf, lastSim.capWithBuf)

\* C24: after any sequence of POST /simulate calls, successful or rejected,
\* _state (topology, demand arrays, capacities, confidence, reduction) is
\* what startup left, apply_multipliers having left its input as it was
C24_BaselineUnchanged == state = baseline

\* a simulation with other demands than the baseline has been answered
C24_Witness ==
    /\ DOMAIN lastSim # {}
    /\ lastSim.demand # state.demand
    /\ lastSim.capNoBuf # state.capNoBuf
    /\ response.endpoint = "simulate"
    /\ response.status = 200

---------------------------------------------------------------------------
(* apply_multipliers and the capacities of its result, call by call *)

\* slot_bits / (slot_dur_sec * 1e9) of the link rounded apart from the sum of
\* the quotients of its cells: the aggregate of the first slot one unit off
Drifted(item) ==
    IF Len(item.demand) = 0 THEN item
    ELSE [item EXCEPT !.demand = [item.demand EXCEPT ![1] = item.demand[1] + 1]]

\* the demand dicts apply_multipliers is called with
MultDemands == ApiDemands \cup {[l \in DOMAIN d |-> Drifted(d[l])] : d \in ApiDemands}

InitMult ==
    /\ CapIdle
    /\ TopoIdle
    /\ AggIdle
    /\ ClusterIdle
    /\ CorrIdle
    /\ RcaIdle
    /\ LoadIdle
    /\ state = <<>>
    /\ baseline = <<>>
    /\ response = <<>>
    /\ lastSim = <<>>
    /\ mpc = "call"
    /\ inDemand \in MultDemands
    /\ multipliers \in AllMultipliers
    /\ newDemand = <<>>
    /\ newCaps = <<>>

\* demand = apply_multipliers(_state["demand"], multipliers)
MultApply ==
    /\ mpc = "call"
    /\ LET r == ApplyMultipliers(inDemand, multipliers)
       IN  /\ newDemand' = r.out
           /\ inDemand' = r.input
    /\ mpc' = "applied"
    /\ UNCHANGED <<multipliers, newCaps, state, baseline, response, lastSim,
                   capVars, topoVars, aggVars, clusterVars, corrVars, rcaVars, loadVars>>

\* the loop over demand.items() of simulate
MultCapacities ==
    /\ mpc = "applied"
    /\ newCaps' = CapsOf(newDemand)
    /\ mpc' = "done"
    /\ UNCHANGED <<inDemand, multipliers, newDemand, state, baseline, response, lastSim,
                   capVars, topoVars, aggVars, clusterVars, corrVars, rcaVars, loadVars>>

NextMult ==
    \/ MultApply
    \/ MultCapacities

SpecMult == InitMult /\ [][NextMult]_vars

\* the aggregate of every slot is the sum of the cells' demands
Conserved(item) ==
    \A i \in 1..Len(item.demand) :
        item.demand[i] = SumCells(item.cellDemand, DOMAIN item.cellDemand, i)

\* no multiplier other than 1
Neutral(mult) ==
    /\ \A c \in DOMAIN mult.str : mult.str[c] = 1
    /\ \A c \in DOMAIN mult.int : mult.int[c] = 1

\* no cell of the item has a traffic slot
NoTraffic(item) ==
    \A c \in DOMAIN item.traffic : \A i \in 1..Len(item.traffic[c]) : ~item.traffic[c][i]

\* the masks of the item are "demand of the cell strictly above 0.01 Gbps"
MasksAboveThreshold(item) ==
    /\ DOMAIN item.traffic = DOMAIN item.cellDemand
    /\ \A c \in DOMAIN item.cellDemand :
          /\ Len(item.traffic[c]) = Len(item.cellDemand[c])
          /\ \A i \in 1..Len(item.cellDemand[c]) :
                item.traffic[c][i] <=> (item.cellDemand[c][i] > TrafficThreshold)

\* C29: a slot is a traffic slot of a cell iff the cell's own demand in it
\* is strictly above 0.01 Gbps, in the dict aggregated from the files and
\* in the dict apply_multipliers returns; on a link none of whose cells
\* ever exceeds 0.01 Gbps while the aggregate is positive every candidate
\* capacity passes the buffered bound, capacity_with_buffer returns at
\* most 1.1 x max(demand) / 2^MaxIter and capacity_without_buffer returns
\* max(demand)
C29_TrafficThreshold ==
    mpc = "done" =>
        \A l \in DOMAIN newDemand :
            /\ MasksAboveThreshold(inDemand[l])
            /\ MasksAboveThreshold(newDemand[l])
            /\ LET item == newDemand[l]
               IN  (/\ DOMAIN item.cellDemand # {}
                    /\ NoTraffic(item)
                    /\ SeqMax(item.demand) > 0) =>
                       /\ \A C \in ProbeCaps(item.demand) \cup CandidateCaps(item.demand) :
                             Passes(item.demand, item.traffic, C, MAX_PACKET_LOSS_PCT)
                       /\ newCaps.withBuf[l] * Pow2(MaxIter) <= InitialHi(item.demand)
                       /\ newCaps.noBuf[l] = CapUnit * SeqMax(item.demand)

\* two cells at 0.01 Gbps each, left as they are, share a link
C29_Witness ==
    /\ mpc = "done"
    /\ \E l \in DOMAIN newDemand :
          /\ DOMAIN newDemand[l].cellDemand = {1, 2}
          /\ NoTraffic(newDemand[l])
          /\ SeqMax(newDemand[l].demand) = 2 * TrafficThreshold
          /\ newCaps.withBuf[l] > 0
          /\ newCaps.withBuf[l] < newCaps.noBuf[l]

\* C30: with no multiplier other than 1 a link whose aggregate is the sum of
\* its cells comes back with the same slot axis, aggregate, per-cell demand
\* and masks; with any multipliers the slot axis is kept, every cell's
\* demand is scaled by the value under its string key, else under its
\* integer key, else by 1, and the aggregate is the sum of the scaled cells
C30_IdentityAndConservation ==
    mpc \in {"applied", "done"} =>
        \A l \in DOMAIN inDemand :
            /\ DOMAIN newDemand = DOMAIN inDemand
            /\ newDemand[l].ts = inDemand[l].ts
            /\ DOMAIN newDemand[l].cellDemand = DOMAIN inDemand[l].cellDemand
            /\ \A c \in DOMAIN inDemand[l].cellDemand :
                  LET m == IF c \in DOMAIN multipliers.str THEN multipliers.str[c]
                           ELSE IF c \in DOMAIN multipliers.int THEN multipliers.int[c]
                           ELSE 1
                  IN  /\ Len(newDemand[l].cellDemand[c]) = Len(inDemand[l].cellDemand[c])
                      /\ \A i \in 1..Len(inDemand[l].cellDemand[c]) :
                            newDemand[l].cellDemand[c][i] = m * inDemand[l].cellDemand[c][i]
            /\ Len(newDemand[l].demand) = Len(inDemand[l].demand)
            /\ Conserved(newDemand[l])
            /\ (Neutral(multipliers) /\ Conserved(inDemand[l])) => newDemand[l] = inDemand[l]

\* both keys of cell 1 are given, neutral, and the cells share a busy link
C30_Witness ==
    /\ mpc = "applied"
    /\ Neutral(multipliers)
    /\ 1 \in DOMAIN multipliers.str
    /\ 1 \in DOMAIN multipliers.int
    /\ \E l \in DOMAIN inDemand :
          /\ DOMAIN inDemand[l].cellDemand = {1, 2}
          /\ Conserved(inDemand[l])
          /\ SeqMax(inDemand[l].demand) > 500
          /\ newDemand[l] = inDemand[l]

====
